---- MODULE Spec2Model ----
(***************************************************************************)
(* Placement pipeline of backend/app/routers/placement.py: the response    *)
(* parsers (parse_scenes_xml, parse_selection_xml), the fanned stage       *)
(* operations and run_pipeline.                                            *)
(*                                                                         *)
(* A text is a sequence of tokens.  A token is a string: a whole tag, one  *)
(* whitespace character or one word of prose.  The regular expressions of  *)
(* the source are matched token by token.                                  *)
(***************************************************************************)
EXTENDS Integers, Sequences, FiniteSets, TLC

\* The parser under test: the function called, the chunks its input text is
\* made of, the text, the scene_id argument and the value returned.
VARIABLES pfun, pchunks, ptext, pscene_id, ppc, presult

\* One call of an endpoint of the placement router: the endpoint, its request
\* body, the handler's position, and the handler's local variables.
VARIABLES endpoint, request, pc, scenes_prompt, scenes,
          image_results, images, selection_results, selections,
          fetch_results, product_images_cache,
          compose_tasks_list, compose_results, composed,
          mask_tasks_list, mask_results, masks, placements, stats, response

\* The external world as the handler has used it: capability calls issued
\* and generation records written by save_generation, by kind.
VARIABLES calls, saved

\* What the gathered calls ended with, beyond the result lists: the calls
\* that raised inside save_generation, as <<endpoint tag, position>>, and
\* the positions of the mask calls in the order in which they completed.
VARIABLES store_errors, finished

\* The records the handlers log for the items that failed, in the order in
\* which they are logged: logger.error and logger.warning with the item's key.
VARIABLES logged

\* The generation store: the clock, the files on disk, for each path the
\* content it was first written with, the save_generation calls made, the
\* number of writes and of calls so far, and the last call with its
\* arguments and its return value.
VARIABLES now, files, written, issued, serial, ncalls, sop, sarg, sret

\* One call of fetch_image_from_url: what the HTTP request meets, the
\* position of the call and its outcome.
VARIABLES fworld, fpc, fresult

pvars == <<pfun, pchunks, ptext, pscene_id, ppc, presult>>

hvars == <<endpoint, request, pc, scenes_prompt, scenes,
           image_results, images, selection_results, selections,
           fetch_results, product_images_cache,
           compose_tasks_list, compose_results, composed,
           mask_tasks_list, mask_results, masks, placements, stats, response,
           calls, saved, store_errors, finished, logged>>

svars == <<now, files, written, issued, serial, ncalls, sop, sarg, sret>>

fvars == <<fworld, fpc, fresult>>

vars == <<pvars, hvars, svars, fvars>>

\* ------------------------------------------------------------------ bounds

\* Number of chunks (blocks, fragments, prose) a scene response is built from.
MaxSceneChunks == 3

\* Number of scene blocks in a scene-stage response of the pipeline, and of
\* items in the request of a batch operation.
MaxItems == 2

\* Number of chunks (fields, fragments, prose) a selection response is built from.
MaxSelChunks == 4

SeqsUpTo(S, n) == UNION { [1..k -> S] : k \in 0..n }

RECURSIVE Flatten(_)
Flatten(ss) == IF ss = <<>> THEN <<>> ELSE Head(ss) \o Flatten(Tail(ss))

\* ------------------------------------------------------------------ tokens

WS == {" ", "\n"}

Min(S) == CHOOSE m \in S : \A o \in S : m <= o

\* str.strip(): leading and trailing whitespace removed.
RECURSIVE LStrip(_)
LStrip(s) == IF s # <<>> /\ Head(s) \in WS THEN LStrip(Tail(s)) ELSE s

RECURSIVE RStrip(_)
RStrip(s) ==
    IF s # <<>> /\ s[Len(s)] \in WS THEN RStrip(SubSeq(s, 1, Len(s) - 1)) ELSE s

Strip(s) == RStrip(LStrip(s))

\* \s* : the first position at or after p that holds no whitespace.
RECURSIVE SkipWs(_, _)
SkipWs(text, p) ==
    IF p <= Len(text) /\ text[p] \in WS THEN SkipWs(text, p + 1) ELSE p

At(text, p) == IF p \in 1..Len(text) THEN text[p] ELSE "<eof>"

\* The opening tags <scene id="(\d+)"(?: type="(continuation|exploration)")?\s*>
\* can match, with the two groups each captures ("" for an absent type).
SceneOpen ==
    [ t \in { "<scene id=\"1\">", "<scene id=\"2\">", "<scene id=\"3\">",
              "<scene id=\"1\" type=\"continuation\">",
              "<scene id=\"2\" type=\"continuation\">",
              "<scene id=\"3\" type=\"continuation\">",
              "<scene id=\"1\" type=\"exploration\">",
              "<scene id=\"2\" type=\"exploration\">",
              "<scene id=\"07\" >" } |->
        CASE t = "<scene id=\"1\">" -> [id |-> "1", type |-> ""]
          [] t = "<scene id=\"2\">" -> [id |-> "2", type |-> ""]
          [] t = "<scene id=\"3\">" -> [id |-> "3", type |-> ""]
          [] t = "<scene id=\"1\" type=\"continuation\">" -> [id |-> "1", type |-> "continuation"]
          [] t = "<scene id=\"2\" type=\"continuation\">" -> [id |-> "2", type |-> "continuation"]
          [] t = "<scene id=\"3\" type=\"continuation\">" -> [id |-> "3", type |-> "continuation"]
          [] t = "<scene id=\"1\" type=\"exploration\">" -> [id |-> "1", type |-> "exploration"]
          [] t = "<scene id=\"2\" type=\"exploration\">" -> [id |-> "2", type |-> "exploration"]
          [] t = "<scene id=\"07\" >" -> [id |-> "07", type |-> ""] ]

\* Opening tags the pattern does not match: no id, a non-digit id, another type.
BadSceneOpen == { "<scene>", "<scene id=\"x\">", "<scene id=\"1\" type=\"hero\">" }

\* ------------------------------------------------------- parse_scenes_xml

\* The tail of the pattern after <mood> at k, closing at m:
\*   (.*?)</mood>\s*</scene>
MoodCloses(text, k, m) ==
    /\ m \in (k + 1)..Len(text)
    /\ text[m] = "</mood>"
    /\ At(text, SkipWs(text, m + 1)) = "</scene>"

\* The tail after <description> at q, closing at j:
\*   (.*?)</description>\s*<mood>(.*?)</mood>\s*</scene>
DescCloses(text, q, j) ==
    /\ j \in (q + 1)..Len(text)
    /\ text[j] = "</description>"
    /\ At(text, SkipWs(text, j + 1)) = "<mood>"
    /\ \E m \in 1..Len(text) : MoodCloses(text, SkipWs(text, j + 1), m)

\* One attempt of the pattern at position p.  The lazy groups take the
\* shortest description for which the rest matches, then the shortest mood.
MatchSceneAt(text, p) ==
    LET q == SkipWs(text, p + 1)
        js == { j \in 1..Len(text) : DescCloses(text, q, j) }
    IN  IF At(text, p) \in DOMAIN SceneOpen /\ At(text, q) = "<description>" /\ js # {}
        THEN LET j == Min(js)
                 k == SkipWs(text, j + 1)
                 m == Min({ n \in 1..Len(text) : MoodCloses(text, k, n) })
             IN  [ ok |-> TRUE,
                   groups |-> << SceneOpen[text[p]].id, SceneOpen[text[p]].type,
                                 SubSeq(text, q + 1, j - 1), SubSeq(text, k + 1, m - 1) >>,
                   end |-> SkipWs(text, m + 1) ]
        ELSE [ ok |-> FALSE, groups |-> <<>>, end |-> p ]

\* re.findall: leftmost matches, scanning on after the end of each match.
RECURSIVE FindAllScenes(_, _)
FindAllScenes(text, p) ==
    IF p > Len(text) THEN <<>>
    ELSE LET mt == MatchSceneAt(text, p)
         IN  IF mt.ok THEN <<mt.groups>> \o FindAllScenes(text, mt.end + 1)
             ELSE FindAllScenes(text, p + 1)

SceneDescription(id, description, mood, scene_type) ==
    [ id |-> id, description |-> description, mood |-> mood, scene_type |-> scene_type ]

SceneOfMatchNoDefault(g) ==
    SceneDescription("scene-" \o g[1], Strip(g[3]), Strip(g[4]), g[2])

SceneOfMatch(g) ==
    SceneDescription("scene-" \o g[1], Strip(g[3]), Strip(g[4]),
                     IF g[2] # "" THEN g[2] ELSE "exploration")

parse_scenes_xml(text) ==
    LET matches == FindAllScenes(text, 1)
    IN  [ i \in 1..Len(matches) |-> SceneOfMatch(matches[i]) ]

\* ---------------------------------------------------- parse_selection_xml

ParseError == [ exc |-> "ValueError" ]

\* re.search(r"<f>(.*?)</f>", text, re.DOTALL): the first <f> that has a
\* </f> after it, up to the nearest such </f>.
RECURSIVE SearchFrom(_, _, _, _)
SearchFrom(text, open, close, p) ==
    IF p > Len(text) THEN [ ok |-> FALSE, group |-> <<>> ]
    ELSE LET cs == { c \in (p + 1)..Len(text) : text[c] = close }
         IN  IF text[p] = open /\ cs # {}
             THEN [ ok |-> TRUE, group |-> SubSeq(text, p + 1, Min(cs) - 1) ]
             ELSE SearchFrom(text, open, close, p + 1)

Search(text, open, close) == SearchFrom(text, open, close, 1)

ProductSelection(scene_id, selected_product_id, placement_hint, rationale) ==
    [ scene_id |-> scene_id, selected_product_id |-> selected_product_id,
      placement_hint |-> placement_hint, rationale |-> rationale, match_score |-> 5 ]

parse_selection_xml_no_rationale_check(text, scene_id) ==
    LET product_id_match == Search(text, "<product_id>", "</product_id>")
        placement_match == Search(text, "<placement>", "</placement>")
        rationale_match == Search(text, "<rationale>", "</rationale>")
    IN  IF ~(product_id_match.ok /\ placement_match.ok)
        THEN ParseError
        ELSE ProductSelection(scene_id, Strip(product_id_match.group),
                              Strip(placement_match.group), Strip(rationale_match.group))

parse_selection_xml(text, scene_id) ==
    LET product_id_match == Search(text, "<product_id>", "</product_id>")
        placement_match == Search(text, "<placement>", "</placement>")
        rationale_match == Search(text, "<rationale>", "</rationale>")
    IN  IF ~(product_id_match.ok /\ placement_match.ok /\ rationale_match.ok)
        THEN ParseError
        ELSE ProductSelection(scene_id, Strip(product_id_match.group),
                              Strip(placement_match.group), Strip(rationale_match.group))

\* ------------------------------------------------------------ parser inputs

OpenTag(id, type) ==
    CHOOSE t \in DOMAIN SceneOpen : SceneOpen[t] = [id |-> id, type |-> type]

\* A well-formed scene block; pad is whitespace put between and inside tags.
Block(id, type, d, m, pad) ==
    [ kind |-> "block", id |-> id, type |-> type, d |-> d, m |-> m,
      tokens |-> <<OpenTag(id, type)>> \o pad \o <<"<description>">> \o pad \o d \o pad
                 \o <<"</description>">> \o pad \o <<"<mood>">> \o m \o <<"</mood>">>
                 \o pad \o <<"</scene>">> ]

Fragment(kind, tokens) ==
    [ kind |-> kind, id |-> "", type |-> "", d |-> <<>>, m |-> <<>>, tokens |-> tokens ]

SceneChunks ==
    { Block("1", "continuation", <<"D">>, <<"M">>, <<>>),
      Block("2", "", <<"a", " ", "cafe">>, <<"calm">>, <<"\n">>),
      Block("1", "exploration", <<>>, <<"N">>, <<" ">>),
      Block("07", "", <<"E">>, <<"M">>, <<>>),
      Fragment("prose", <<"Here", " ", "are", ":">>),
      Fragment("prose", <<"\n">>),
      \* no <mood>
      Fragment("malformed", <<"<scene id=\"3\">", "<description>", "X", "</description>", "</scene>">>),
      \* no </scene>
      Fragment("malformed", <<"<scene id=\"3\">", "<description>", "X", "</description>",
                             "<mood>", "Y", "</mood>">>),
      \* no </description>
      Fragment("malformed", <<"<scene id=\"3\">", "<description>", "X", "<mood>", "Y", "</mood>", "</scene>">>),
      \* an opening tag the pattern rejects
      Fragment("malformed", <<"<scene id=\"1\" type=\"hero\">", "<description>", "X", "</description>",
                             "<mood>", "Y", "</mood>", "</scene>">>),
      Fragment("malformed", <<"<scene>", "<description>", "X", "</description>",
                             "<mood>", "Y", "</mood>", "</scene>">>) }

Field(name, content) ==
    [ kind |-> "field", name |-> name,
      tokens |-> <<"<" \o name \o ">">> \o content \o <<"</" \o name \o ">">> ]

SelFragment(kind, tokens) == [ kind |-> kind, name |-> "", tokens |-> tokens ]

SelChunks ==
    { Field("product_id", <<"p1">>),
      Field("product_id", <<" ", "NONE", "\n">>),
      Field("placement", <<"on", " ", "table">>),
      Field("rationale", <<"fits">>),
      Field("rationale", <<"second">>),
      SelFragment("prose", <<"I", " ", "think", "\n">>),
      SelFragment("malformed", <<"<product_id>">>),
      SelFragment("malformed", <<"<rationale>", "x">>) }

SceneIds == { "scene-1", "scene-2" }

Tokens(chunks) == Flatten([ i \in 1..Len(chunks) |-> chunks[i].tokens ])

\* ----------------------------------------------------------------- requests

\* ProductInfo; image_url "" stands for None.
ProductInfo(id, name, image_url) == [ id |-> id, name |-> name, image_url |-> image_url ]

P1 == ProductInfo(<<"p1">>, "Lamp", "")

P2 == ProductInfo(<<"p2">>, "Vase", "https://cdn.example/vase.jpg")

PNone == ProductInfo(<<"NONE">>, "Nothing", "")

\* A second entry with the id of P1, and with an image.
P1Photo == ProductInfo(<<"p1">>, "Lamp", "https://cdn.example/lamp.jpg")

Catalogs == { <<>>, <<P1>>, <<P1, P2>>, <<PNone>>, <<P1, P1Photo>> }

WritingContexts == { <<>>, <<" ", "\n">>, <<"a", " ", "quiet", " ", "morning">> }

LikedHistories == { <<>>, <<[ description |-> "rainy cafe", mood |-> "calm", product_name |-> "" ]>> }

SceneCounts == { 0, 1, 5, 10, 11 }

\* continuation_ratio in hundredths: 0.0, 0.25, 0.5, 0.6, 1.0, 1.5.
Ratios == { 0, 25, 50, 60, 100, 150 }

PipelineRequests ==
    [ writing_context : WritingContexts, products : Catalogs, liked_scenes : LikedHistories,
      scene_count : SceneCounts, continuation_ratio : Ratios ]

\* Image bytes, named by where they come from: the call that made them, the
\* item (scene position, scene_id or url) they were made for, and the
\* reference image used, if any.
ImageData(gen, src, ref) == [ gen |-> gen, src |-> src, ref |-> ref ]

\* The empty string.
NoImage == ImageData("", "", "")

ImageGenRequest(scene_id) ==
    [ scene_id |-> scene_id, scene_description |-> <<"D">>, mood |-> <<"M">> ]

ImageForSelection(scene_id) ==
    [ scene_id |-> scene_id, image_data |-> ImageData("request", scene_id, ""), mime_type |-> "image/png" ]

CompositionTask(scene_id, scene_image, scene_mime_type, product, product_image, product_mime_type, placement_hint) ==
    [ scene_id |-> scene_id, scene_image |-> scene_image, scene_mime_type |-> scene_mime_type,
      product |-> product, product_image |-> product_image,
      product_mime_type |-> product_mime_type, placement_hint |-> placement_hint ]

MaskTask(scene_id, composed_image, mime_type, product_name) ==
    [ scene_id |-> scene_id, composed_image |-> composed_image, mime_type |-> mime_type,
      product_name |-> product_name ]

GenerateImagesRequests ==
    { [ scenes |-> s ] : s \in SeqsUpTo({ ImageGenRequest(id) : id \in SceneIds }, MaxItems) }

SelectProductsRequests ==
    { [ images |-> s, products |-> <<P1, P2>> ] :
        s \in SeqsUpTo({ ImageForSelection(id) : id \in SceneIds }, MaxItems) }

ComposeBatchRequests ==
    { [ tasks |-> s ] :
        s \in SeqsUpTo(
            { CompositionTask(id, ImageData("request", id, ""), "image/png", P1, NoImage,
                              "image/jpeg", <<"on", " ", "table">>) : id \in SceneIds }
            \cup { CompositionTask("scene-1", ImageData("request", "scene-1", ""), "image/png", P2,
                                   ImageData("request", "vase", ""), "image/jpeg", <<"shelf">>) },
            MaxItems) }

GenerateMasksRequests ==
    { [ tasks |-> s ] :
        s \in SeqsUpTo({ MaskTask(id, ImageData("request", id, ""), "image/png", "Lamp") : id \in SceneIds },
                       MaxItems) }

ScenesRequests ==
    [ writing_context : { <<"a", " ", "quiet", " ", "morning">> }, liked_scenes : LikedHistories,
      continuation_count : { 0, 1 }, exploration_count : { 1 } ]

Endpoints ==
    { "pipeline", "generate_scenes", "generate_images", "select_products", "compose_batch",
      "generate_masks" }

RequestsOf(e) ==
    CASE e = "pipeline" -> PipelineRequests
      [] e = "generate_scenes" -> ScenesRequests
      [] e = "generate_images" -> GenerateImagesRequests
      [] e = "select_products" -> SelectProductsRequests
      [] e = "compose_batch" -> ComposeBatchRequests
      [] e = "generate_masks" -> GenerateMasksRequests

\* ------------------------------------------------- the external capabilities

\* Texts gemini.query may answer the scene prompt with: up to MaxItems scene
\* blocks (two of them may carry the same id), or a text with no block.
SceneResponses ==
    { Tokens(cs) :
        cs \in SeqsUpTo({ Block("1", "continuation", <<"D">>, <<"M">>, <<>>),
                         Block("2", "", <<"a", " ", "cafe">>, <<"calm">>, <<"\n">>) }, MaxItems) }

\* Texts gemini.multimedia_query may answer the selection prompt with.
SelectionResponses ==
    { Tokens(<<Field("product_id", id), Field("placement", <<"on", " ", "table">>),
               Field("rationale", <<"fits">>)>>) : id \in { <<"p1">>, <<"p2">>, <<"NONE">> } }
    \cup { Tokens(<<Field("product_id", <<"p1">>), Field("placement", <<"shelf">>)>>) }

\* How one call that returns an image may end: an image is returned and its
\* generation is saved, the capability raises, it returns no image, or
\* save_generation raises.
ImageCallOutcomes == { "ok", "api_error", "no_image", "store_error" }

Pending == [ st |-> "pending" ]

\* An exception object in a gather(..., return_exceptions=True) result list.
Exc == [ st |-> "exception" ]

NotException(r) == r # Exc

IsDone(r) == r # Pending

FirstDone(results) == results # <<>> => results[1] # Pending

\* await asyncio.gather(...) returns: every call has ended.
AllDone(results) == \A i \in 1..Len(results) : results[i] # Pending

AllPending(n) == [ i \in 1..n |-> Pending ]

\* [r for r in results if not isinstance(r, Exception)]
Successes(results) == SelectSeq(results, NotException)

HTTPException(status_code, detail) == [ status_code |-> status_code, detail |-> detail ]

NoResponse == HTTPException(0, "")

OkResponse == HTTPException(200, "")

NoCalls ==
    [ query |-> 0, generate_image |-> 0, multimedia_query |-> 0, edit_image |-> 0, fetch |-> 0 ]

SavedTags ==
    { "/api/placement/scenes", "/api/placement/generate-images", "/api/placement/select-products",
      "/api/placement/compose-batch", "/api/placement/generate-masks" }

NoSaved == [ t \in SavedTags |-> 0 ]

NoStats == [ steps |-> [ k \in {} |-> 0 ] ]

AddStep(st, k, n) ==
    [ st EXCEPT !.steps = [ x \in DOMAIN st.steps \cup { k } |-> IF x = k THEN n ELSE st.steps[x] ] ]

NoPrompt == [ total_count |-> 0, continuation_count |-> 0, exploration_count |-> 0 ]

EmptyCache == [ id \in {} |-> <<>> ]

HandlerIdle ==
    /\ pc = "start"
    /\ scenes_prompt = NoPrompt
    /\ scenes = <<>>
    /\ image_results = <<>> /\ images = <<>>
    /\ selection_results = <<>> /\ selections = <<>>
    /\ fetch_results = <<>> /\ product_images_cache = EmptyCache
    /\ compose_tasks_list = <<>> /\ compose_results = <<>> /\ composed = <<>>
    /\ mask_tasks_list = <<>> /\ mask_results = <<>> /\ masks = <<>>
    /\ placements = <<>>
    /\ stats = NoStats
    /\ response = NoResponse
    /\ calls = NoCalls
    /\ saved = NoSaved
    /\ store_errors = {}
    /\ finished = <<>>
    /\ logged = <<>>

ParserIdle ==
    /\ pfun = "none" /\ pchunks = <<>> /\ ptext = <<>> /\ pscene_id = "" /\ ppc = "idle"
    /\ presult = <<>>

\* ------------------------------------------------------ run_pipeline, step 1

\* round(): to the nearest integer, a tie to the even one; num/den, den > 0.
PyRound(num, den) ==
    LET q == num \div den
        r == num % den
    IN  IF 2 * r < den THEN q
        ELSE IF 2 * r > den THEN q + 1
        ELSE IF q % 2 = 0 THEN q ELSE q + 1

SplitIgnoringHistory(req) ==
    LET c == PyRound(req.scene_count * req.continuation_ratio, 100)
    IN  [ continuation_count |-> c, exploration_count |-> req.scene_count - c ]

\* The continuation/exploration split.
Split(req) ==
    LET c == PyRound(req.scene_count * req.continuation_ratio, 100)
    IN  IF req.liked_scenes = <<>>
        THEN [ continuation_count |-> 0, exploration_count |-> req.scene_count ]
        ELSE [ continuation_count |-> c, exploration_count |-> req.scene_count - c ]

ValidationErrorNoCountCheck(req) ==
    IF Strip(req.writing_context) = <<>> THEN "writing_context cannot be empty"
    ELSE IF req.products = <<>> THEN "At least one product is required"
    ELSE ""

\* The input validation; "" when the request is accepted.
ValidationError(req) ==
    IF Strip(req.writing_context) = <<>> THEN "writing_context cannot be empty"
    ELSE IF req.products = <<>> THEN "At least one product is required"
    ELSE IF req.scene_count < 1 \/ req.scene_count > 10 THEN "scene_count must be 1-10"
    ELSE ""

Fail(status_code, detail) ==
    /\ response' = HTTPException(status_code, detail)
    /\ pc' = "failed"

\* After step 1 the handler reads request.products only; the model keeps
\* that and scene_count, the number of scenes asked for.
LiveAfterStep1(req) == [ products |-> req.products, scene_count |-> req.scene_count ]

\* From the call to the await of gemini.query.
RunPipelineStart ==
    /\ endpoint = "pipeline" /\ pc = "start"
    /\ LET err == ValidationError(request)
           split == Split(request)
       IN  IF err # ""
           THEN Fail(400, err) /\ UNCHANGED <<scenes_prompt, calls>>
           ELSE \/ /\ scenes_prompt' = [ total_count |-> request.scene_count,
                                         continuation_count |-> split.continuation_count,
                                         exploration_count |-> split.exploration_count ]
                   /\ calls' = [ calls EXCEPT !.query = @ + 1 ]
                   /\ pc' = "step1"
                   /\ UNCHANGED response
                \* load_and_fill_prompt raises: the template file is missing
                \/ Fail(503, "Pipeline error") /\ UNCHANGED <<scenes_prompt, calls>>
    /\ UNCHANGED <<pvars, svars, fvars, logged, store_errors, finished, endpoint, request, scenes, image_results, images, selection_results,
                   selections, fetch_results, product_images_cache, compose_tasks_list,
                   compose_results, composed, mask_tasks_list, mask_results, masks, placements,
                   stats, saved>>

\* gemini.query returns or raises; the scenes are parsed and step 2 issued.
SceneQueryReturns ==
    /\ endpoint = "pipeline" /\ pc = "step1"
    /\ \/ /\ Fail(503, "Pipeline error")
          /\ UNCHANGED <<request, scenes_prompt, scenes, stats, image_results, calls>>
       \/ \E text \in SceneResponses :
            LET parsed == parse_scenes_xml(text)
            IN  IF parsed = <<>>
                THEN /\ Fail(500, "Failed to generate scenes")
                     /\ UNCHANGED <<request, scenes_prompt, scenes, stats, image_results, calls>>
                ELSE /\ scenes' = parsed
                     /\ stats' = AddStep(stats, "1_scenes", Len(parsed))
                     /\ image_results' = AllPending(Len(parsed))
                     /\ calls' = [ calls EXCEPT !.generate_image = @ + Len(parsed) ]
                     /\ request' = LiveAfterStep1(request)
                     /\ scenes_prompt' = NoPrompt
                     /\ pc' = "step2"
                     /\ UNCHANGED response
    /\ UNCHANGED <<pvars, svars, fvars, logged, store_errors, finished, endpoint, images, selection_results, selections, fetch_results,
                   product_images_cache, compose_tasks_list, compose_results, composed,
                   mask_tasks_list, mask_results, masks, placements, saved>>

HasUrl(p) == p.image_url # ""

\* ------------------------------------------------------- the fanned calls

GeneratedImage(scene_id, image_data, mime_type) ==
    [ scene_id |-> scene_id, image_data |-> image_data, mime_type |-> mime_type ]

ComposedImage(scene_id, image_data, mime_type) ==
    [ scene_id |-> scene_id, image_data |-> image_data, mime_type |-> mime_type ]

GeneratedMask(scene_id, mask_data, mime_type) ==
    [ scene_id |-> scene_id, mask_data |-> mask_data, mime_type |-> mime_type ]

Save(tag) == saved' = [ saved EXCEPT ![tag] = @ + 1 ]

generate_single_image_any_id(scene_id, src, outcome) ==
    IF outcome = "ok"
    THEN GeneratedImage("scene-1", ImageData("generate_image", src, ""), "image/png")
    ELSE Exc

\* What the coroutine returns, or the exception it ends with.
generate_single_image(scene_id, src, outcome) ==
    IF outcome = "ok"
    THEN GeneratedImage(scene_id, ImageData("generate_image", src, ""), "image/png")
    ELSE Exc

select_product_for_image(scene_id, text, outcome) ==
    LET selection == parse_selection_xml(text, scene_id)
    IN  IF outcome = "api_error" \/ selection = ParseError \/ outcome = "store_error"
        THEN Exc
        ELSE selection

compose_single_image(task, outcome) ==
    IF outcome = "ok"
    THEN ComposedImage(task.scene_id,
                       ImageData(IF task.product_image # NoImage
                                 THEN "compose_with_reference" ELSE "compose",
                                 task.scene_image.src, task.product_image.src),
                       "image/png")
    ELSE Exc

generate_single_mask(task, outcome) ==
    IF outcome = "ok"
    THEN GeneratedMask(task.scene_id, ImageData("mask", task.composed_image.src, ""), "image/png")
    ELSE Exc

\* The items the image calls of this handler are made for.
ImageInputs ==
    IF endpoint = "pipeline"
    THEN [ i \in 1..Len(scenes) |-> scenes[i].id ]
    ELSE [ i \in 1..Len(request.scenes) |-> request.scenes[i].scene_id ]

SelectionInputs == IF endpoint = "pipeline" THEN images ELSE request.images

ComposeInputs ==
    IF endpoint = "pipeline"
    THEN [ i \in 1..Len(compose_tasks_list) |-> compose_tasks_list[i][1] ]
    ELSE request.tasks

MaskInputs ==
    IF endpoint = "pipeline"
    THEN [ i \in 1..Len(mask_tasks_list) |-> mask_tasks_list[i][1] ]
    ELSE request.tasks

InStage(e, step) ==
    \/ endpoint = "pipeline" /\ pc = step
    \/ endpoint = e /\ pc = "gather"

\* One generate_single_image coroutine runs to its end.
ImageCallCompletes(i) ==
    /\ InStage("generate_images", "step2")
    /\ i \in 1..Len(image_results) /\ image_results[i] = Pending
    /\ \E outcome \in ImageCallOutcomes :
        /\ image_results' =
              [ image_results EXCEPT ![i] = generate_single_image(ImageInputs[i], ToString(i), outcome) ]
        /\ IF outcome = "ok" THEN Save("/api/placement/generate-images") ELSE UNCHANGED saved
        /\ store_errors' = IF outcome = "store_error" THEN store_errors \cup { <<"/api/placement/generate-images", i>> }
                           ELSE store_errors
    /\ UNCHANGED <<pvars, svars, fvars, logged, finished, endpoint, request, pc, scenes_prompt, scenes, images, selection_results,
                   selections, fetch_results, product_images_cache, compose_tasks_list,
                   compose_results, composed, mask_tasks_list, mask_results, masks, placements,
                   stats, response, calls>>

\* One select_product_for_image coroutine runs to its end.
SelectionCallCompletes(i) ==
    /\ InStage("select_products", "step3")
    /\ i \in 1..Len(selection_results) /\ selection_results[i] = Pending
    /\ \E outcome \in { "ok", "api_error", "store_error" }, text \in SelectionResponses :
        LET r == select_product_for_image(SelectionInputs[i].scene_id, text, outcome)
        IN  /\ selection_results' = [ selection_results EXCEPT ![i] = r ]
            /\ IF r # Exc THEN Save("/api/placement/select-products") ELSE UNCHANGED saved
            /\ store_errors' =
                  IF outcome = "store_error"
                     /\ parse_selection_xml(text, SelectionInputs[i].scene_id) # ParseError
                  THEN store_errors \cup { <<"/api/placement/select-products", i>> }
                  ELSE store_errors
    /\ UNCHANGED <<pvars, svars, fvars, logged, finished, endpoint, request, pc, scenes_prompt, scenes, image_results, images,
                   selections, fetch_results, product_images_cache, compose_tasks_list,
                   compose_results, composed, mask_tasks_list, mask_results, masks, placements,
                   stats, response, calls>>

\* One compose_single_image coroutine runs to its end.
ComposeCallCompletes(i) ==
    /\ InStage("compose_batch", "step4")
    /\ i \in 1..Len(compose_results) /\ compose_results[i] = Pending
    /\ \E outcome \in ImageCallOutcomes :
        /\ compose_results' =
              [ compose_results EXCEPT ![i] = compose_single_image(ComposeInputs[i], outcome) ]
        /\ IF outcome = "ok" THEN Save("/api/placement/compose-batch") ELSE UNCHANGED saved
        /\ store_errors' = IF outcome = "store_error" THEN store_errors \cup { <<"/api/placement/compose-batch", i>> }
                           ELSE store_errors
    /\ UNCHANGED <<pvars, svars, fvars, logged, finished, endpoint, request, pc, scenes_prompt, scenes, image_results, images,
                   selection_results, selections, fetch_results, product_images_cache,
                   compose_tasks_list, composed, mask_tasks_list, mask_results, masks,
                   placements, stats, response, calls>>

\* One generate_single_mask coroutine runs to its end.
MaskCallCompletes(i) ==
    /\ InStage("generate_masks", "step5")
    /\ i \in 1..Len(mask_results) /\ mask_results[i] = Pending
    /\ \E outcome \in ImageCallOutcomes :
        /\ mask_results' = [ mask_results EXCEPT ![i] = generate_single_mask(MaskInputs[i], outcome) ]
        /\ IF outcome = "ok" THEN Save("/api/placement/generate-masks") ELSE UNCHANGED saved
        /\ store_errors' = IF outcome = "store_error" THEN store_errors \cup { <<"/api/placement/generate-masks", i>> }
                           ELSE store_errors
    /\ finished' = Append(finished, i)
    /\ UNCHANGED <<pvars, svars, fvars, logged, endpoint, request, pc, scenes_prompt, scenes, image_results, images,
                   selection_results, selections, fetch_results, product_images_cache,
                   compose_tasks_list, compose_results, composed, mask_tasks_list, masks,
                   placements, stats, response, calls>>

\* One fetch_image_from_url coroutine ends: with (bytes, mime type), or raising.
FetchCompletes(i) ==
    /\ endpoint = "pipeline" /\ pc = "fetch"
    /\ i \in 1..Len(fetch_results) /\ fetch_results[i] = Pending
    /\ \E outcome \in { "image", "empty", "error" } :
        fetch_results' =
            [ fetch_results EXCEPT ![i] =
                CASE outcome = "image" ->
                       <<ImageData("fetch", SelectSeq(request.products, HasUrl)[i].image_url, ""),
                         "image/jpeg">>
                  \* a response with no content: b64encode gives the empty string
                  [] outcome = "empty" -> <<NoImage, "image/jpeg">>
                  [] OTHER -> Exc ]
    /\ UNCHANGED <<pvars, svars, fvars, logged, store_errors, finished, endpoint, request, pc, scenes_prompt, scenes, image_results, images,
                   selection_results, selections, product_images_cache, compose_tasks_list,
                   compose_results, composed, mask_tasks_list, mask_results, masks, placements,
                   stats, response, calls, saved>>

\* ------------------------------------------------- run_pipeline, steps 2-5

None == [ none |-> TRUE ]

\* next((x for x in xs if ...), None)
FirstImage(imgs, scene_id) ==
    LET idx == { i \in 1..Len(imgs) : imgs[i].scene_id = scene_id }
    IN  IF idx = {} THEN None ELSE imgs[Min(idx)]

FirstProduct(products, id) ==
    LET idx == { i \in 1..Len(products) : products[i].id = id }
    IN  IF idx = {} THEN None ELSE products[Min(idx)]

FirstScene(scs, id) ==
    LET idx == { i \in 1..Len(scs) : scs[i].id = id }
    IN  IF idx = {} THEN None ELSE scs[Min(idx)]

\* The positions of the results that are no exception, in order.
SuccessIdx(results) ==
    LET Good(i) == results[i] # Exc
    IN  SelectSeq([ i \in 1..Len(results) |-> i ], Good)

\* The positions of the results that are an exception, in order.
FailureIdx(results) ==
    LET Bad(i) == results[i] = Exc
    IN  SelectSeq([ i \in 1..Len(results) |-> i ], Bad)

\* logger.error(event, scene_id=items[i].scene_id, ...) for each exception.
LogFailures(event, results, items) ==
    LET bad == FailureIdx(results)
    IN  [ n \in 1..Len(bad) |-> [ level |-> "error", event |-> event,
                                  scene_id |-> items[bad[n]].scene_id ] ]

\* logger.warning("product_image_fetch_failed", product_id=product.id, ...)
LogFetchFailures(results, products) ==
    LET bad == FailureIdx(results)
    IN  [ n \in 1..Len(bad) |-> [ level |-> "warning", event |-> "product_image_fetch_failed",
                                  product_id |-> products[bad[n]].id ] ]

\* await gather(images): the images are filtered, step 3 is issued.
ImagesGathered ==
    /\ endpoint = "pipeline" /\ pc = "step2" /\ AllDone(image_results)
    /\ LET imgs == Successes(image_results)
       IN  IF imgs = <<>>
           THEN /\ Fail(500, "Failed to generate any images")
                /\ UNCHANGED <<images, stats, selection_results, calls>>
           ELSE /\ images' = imgs
                /\ stats' = AddStep(stats, "2_images", Len(imgs))
                /\ selection_results' = AllPending(Len(imgs))
                /\ calls' = [ calls EXCEPT !.multimedia_query = @ + Len(imgs) ]
                /\ pc' = "step3"
                /\ UNCHANGED response
    /\ UNCHANGED <<pvars, svars, fvars, logged, store_errors, finished, endpoint, request, scenes_prompt, scenes, image_results, selections,
                   fetch_results, product_images_cache, compose_tasks_list, compose_results,
                   composed, mask_tasks_list, mask_results, masks, placements, saved>>

\* The composition tasks: one per selection whose scene image and product exist.
BuildComposeTasks(sels, imgs, products, cache) ==
    LET Composable(sel) ==
            /\ FirstImage(imgs, sel.scene_id) # None
            /\ FirstProduct(products, sel.selected_product_id) # None
        TaskOf(sel) ==
            LET scene_img == FirstImage(imgs, sel.scene_id)
                product == FirstProduct(products, sel.selected_product_id)
                cached == product.id \in DOMAIN cache
            IN  << CompositionTask(sel.scene_id, scene_img.image_data, scene_img.mime_type,
                                   product,
                                   IF cached THEN cache[product.id][1] ELSE NoImage,
                                   IF cached THEN cache[product.id][2] ELSE "image/jpeg",
                                   sel.placement_hint),
                   sel >>
        good == SelectSeq(sels, Composable)
    IN  [ i \in 1..Len(good) |-> TaskOf(good[i]) ]

\* Lines 809-839: the tasks are built and the composition calls issued.
IssueCompose(sels, cache) ==
    LET tasks == BuildComposeTasks(sels, images, request.products, cache)
    IN  /\ product_images_cache' = cache
        /\ compose_tasks_list' = tasks
        /\ compose_results' = AllPending(Len(tasks))
        /\ calls' = [ calls EXCEPT !.edit_image = @ + Len(tasks) ]
        /\ pc' = "step4"

\* await gather(selections): the selections are filtered; the product images
\* are fetched when a product has an image_url, else step 4 is issued.
SelectionsGathered ==
    /\ endpoint = "pipeline" /\ pc = "step3" /\ AllDone(selection_results)
    /\ LET sels == Successes(selection_results)
           products_with_urls == SelectSeq(request.products, HasUrl)
       IN  IF sels = <<>>
           THEN /\ Fail(500, "Failed to select any products")
                /\ UNCHANGED <<selections, stats, fetch_results, product_images_cache,
                               compose_tasks_list, compose_results, calls>>
           ELSE /\ selections' = sels
                /\ stats' = AddStep(stats, "3_selections", Len(sels))
                /\ UNCHANGED response
                /\ IF products_with_urls # <<>>
                   THEN /\ fetch_results' = AllPending(Len(products_with_urls))
                        /\ calls' = [ calls EXCEPT !.fetch = @ + Len(products_with_urls) ]
                        /\ pc' = "fetch"
                        /\ UNCHANGED <<product_images_cache, compose_tasks_list, compose_results>>
                   ELSE /\ IssueCompose(sels, EmptyCache)
                        /\ UNCHANGED fetch_results
    /\ UNCHANGED <<pvars, svars, fvars, logged, store_errors, finished, endpoint, request, scenes_prompt, scenes, image_results, images,
                   selection_results, composed, mask_tasks_list, mask_results, masks,
                   placements, saved>>

\* await gather(fetches): the cache is filled and step 4 issued.
FetchesGathered ==
    /\ endpoint = "pipeline" /\ pc = "fetch" /\ AllDone(fetch_results)
    /\ LET products_with_urls == SelectSeq(request.products, HasUrl)
           good == { i \in 1..Len(fetch_results) : fetch_results[i] # Exc }
           cache == [ id \in { products_with_urls[i].id : i \in good } |->
                        LET last == CHOOSE i \in good :
                                       /\ products_with_urls[i].id = id
                                       /\ \A j \in good : products_with_urls[j].id = id => j <= i
                        IN  fetch_results[last] ]
       IN  IssueCompose(selections, cache)
    /\ logged' = logged \o LogFetchFailures(fetch_results, SelectSeq(request.products, HasUrl))
    /\ UNCHANGED <<pvars, svars, fvars, store_errors, finished, endpoint, request, scenes_prompt, scenes, image_results, images,
                   selection_results, selections, fetch_results, composed, mask_tasks_list,
                   mask_results, masks, placements, stats, response, saved>>

\* await gather(compositions): the composed images are filtered, step 5 issued.
ComposeGathered ==
    /\ endpoint = "pipeline" /\ pc = "step4" /\ AllDone(compose_results)
    /\ LET good == SuccessIdx(compose_results)
           comp == [ i \in 1..Len(good) |-> <<compose_results[good[i]], compose_tasks_list[good[i]][2]>> ]
           MaskEntry(c) ==
               LET product == FirstProduct(request.products, c[2].selected_product_id)
               IN  << MaskTask(c[1].scene_id, c[1].image_data, c[1].mime_type,
                               IF product # None THEN product.name ELSE "product"),
                      c[1], c[2] >>
       IN  IF comp = <<>>
           THEN /\ Fail(500, "Failed to compose any images")
                /\ UNCHANGED <<composed, stats, mask_tasks_list, mask_results, calls>>
           ELSE /\ composed' = comp
                /\ stats' = AddStep(stats, "4_compose", Len(comp))
                /\ mask_tasks_list' = [ i \in 1..Len(comp) |-> MaskEntry(comp[i]) ]
                /\ mask_results' = AllPending(Len(comp))
                /\ calls' = [ calls EXCEPT !.edit_image = @ + Len(comp) ]
                /\ pc' = "step5"
                /\ UNCHANGED response
    /\ UNCHANGED <<pvars, svars, fvars, logged, store_errors, finished, endpoint, request, scenes_prompt, scenes, image_results, images,
                   selection_results, selections, fetch_results, product_images_cache,
                   compose_tasks_list, compose_results, masks, placements, saved>>

PlacementResult(scene, scene_img, composed_img, mask_result, product, selection) ==
    [ scene_id |-> composed_img.scene_id,
      scene_description |-> scene.description,
      mood |-> scene.mood,
      scene_type |-> scene.scene_type,
      scene_image |-> scene_img.image_data,
      composed_image |-> composed_img.image_data,
      mask |-> mask_result.mask_data,
      mime_type |-> composed_img.mime_type,
      product |-> product,
      placement_hint |-> selection.placement_hint,
      rationale |-> selection.rationale ]

CountAll(results) == Len(results)

\* sum(1 for m in mask_results if not isinstance(m, Exception))
CountSuccesses(results) == Len(Successes(results))

\* The final join: one PlacementResult per mask that was generated.
Assemble(results, entries, scs, imgs, products) ==
    LET Joinable(i) ==
            /\ FirstScene(scs, entries[i][2].scene_id) # None
            /\ FirstImage(imgs, entries[i][2].scene_id) # None
            /\ FirstProduct(products, entries[i][3].selected_product_id) # None
        good == SelectSeq(SuccessIdx(results), Joinable)
    IN  [ n \in 1..Len(good) |->
            LET i == good[n]
            IN  PlacementResult(FirstScene(scs, entries[i][2].scene_id),
                                FirstImage(imgs, entries[i][2].scene_id),
                                entries[i][2], results[i],
                                FirstProduct(products, entries[i][3].selected_product_id),
                                entries[i][3]) ]

\* await gather(masks): the stats are completed, the placements assembled
\* and the response returned.
MasksGathered ==
    /\ endpoint = "pipeline" /\ pc = "step5" /\ AllDone(mask_results)
    /\ LET joined == Assemble(mask_results, mask_tasks_list, scenes, images, request.products)
           with5 == AddStep(stats, "5_masks", CountSuccesses(mask_results))
       IN  /\ placements' = joined
           /\ stats' = [ steps |-> with5.steps, placements_generated |-> Len(joined) ]
    /\ response' = OkResponse
    /\ pc' = "done"
    /\ UNCHANGED <<pvars, svars, fvars, logged, store_errors, finished, endpoint, request, scenes_prompt, scenes, image_results, images,
                   selection_results, selections, fetch_results, product_images_cache,
                   compose_tasks_list, compose_results, composed, mask_tasks_list,
                   mask_results, masks, calls, saved>>

\* ----------------------------------------------------- the batch operations

\* generate_scenes, to its await of gemini.query.  load_and_fill_prompt is
\* called outside the try block: when it raises, the framework answers 500.
GenerateScenesStart ==
    /\ endpoint = "generate_scenes" /\ pc = "start"
    /\ \/ /\ calls' = [ calls EXCEPT !.query = @ + 1 ]
          /\ pc' = "gather"
          /\ UNCHANGED response
       \/ Fail(500, "Internal Server Error") /\ UNCHANGED calls
    /\ UNCHANGED <<pvars, svars, fvars, logged, store_errors, finished, endpoint, request, scenes_prompt,
                   scenes, image_results, images, selection_results, selections, fetch_results,
                   product_images_cache, compose_tasks_list, compose_results, composed,
                   mask_tasks_list, mask_results, masks, placements, stats, saved>>

\* gemini.query returns or raises; the scenes are parsed and the generation saved.
GenerateScenesReturns ==
    /\ endpoint = "generate_scenes" /\ pc = "gather"
    /\ \/ /\ Fail(503, "Scene generation error")
          /\ UNCHANGED <<scenes, saved, store_errors>>
       \/ \E text \in SceneResponses, store_ok \in BOOLEAN :
            LET parsed == parse_scenes_xml(text)
            IN  IF parsed = <<>>
                THEN /\ Fail(500, "Failed to parse scene descriptions")
                     /\ UNCHANGED <<scenes, saved, store_errors>>
                ELSE IF store_ok
                THEN /\ Save("/api/placement/scenes")
                     /\ scenes' = parsed
                     /\ response' = OkResponse
                     /\ pc' = "done"
                     /\ UNCHANGED store_errors
                ELSE /\ Fail(503, "Scene generation error")
                     /\ store_errors' = store_errors \cup { <<"/api/placement/scenes", 1>> }
                     /\ UNCHANGED <<scenes, saved>>
    /\ UNCHANGED <<pvars, svars, fvars, logged, finished, endpoint, request, scenes_prompt, image_results,
                   images, selection_results, selections, fetch_results, product_images_cache,
                   compose_tasks_list, compose_results, composed, mask_tasks_list, mask_results,
                   masks, placements, stats, calls>>

\* generate_images, to its await of gather.
GenerateImagesStart ==
    /\ endpoint = "generate_images" /\ pc = "start"
    /\ image_results' = AllPending(Len(request.scenes))
    /\ calls' = [ calls EXCEPT !.generate_image = @ + Len(request.scenes) ]
    /\ pc' = "gather"
    /\ UNCHANGED <<pvars, svars, fvars, logged, store_errors, finished, endpoint, request, scenes_prompt, scenes, images, selection_results,
                   selections, fetch_results, product_images_cache, compose_tasks_list,
                   compose_results, composed, mask_tasks_list, mask_results, masks, placements,
                   stats, response, saved>>

GenerateImagesGathered ==
    /\ endpoint = "generate_images" /\ pc = "gather" /\ AllDone(image_results)
    /\ images' = Successes(image_results)
    /\ response' = OkResponse
    /\ pc' = "done"
    /\ logged' = LogFailures("placement_single_image_failed", image_results, request.scenes)
    /\ UNCHANGED <<pvars, svars, fvars, store_errors, finished, endpoint, request, scenes_prompt, scenes, image_results,
                   selection_results, selections, fetch_results, product_images_cache,
                   compose_tasks_list, compose_results, composed, mask_tasks_list, mask_results,
                   masks, placements, stats, calls, saved>>

SelectProductsStart ==
    /\ endpoint = "select_products" /\ pc = "start"
    /\ selection_results' = AllPending(Len(request.images))
    /\ calls' = [ calls EXCEPT !.multimedia_query = @ + Len(request.images) ]
    /\ pc' = "gather"
    /\ UNCHANGED <<pvars, svars, fvars, logged, store_errors, finished, endpoint, request, scenes_prompt, scenes, image_results, images,
                   selections, fetch_results, product_images_cache, compose_tasks_list,
                   compose_results, composed, mask_tasks_list, mask_results, masks, placements,
                   stats, response, saved>>

SelectProductsGathered ==
    /\ endpoint = "select_products" /\ pc = "gather" /\ AllDone(selection_results)
    /\ selections' = Successes(selection_results)
    /\ response' = OkResponse
    /\ pc' = "done"
    /\ logged' = LogFailures("placement_single_selection_failed", selection_results, request.images)
    /\ UNCHANGED <<pvars, svars, fvars, store_errors, finished, endpoint, request, scenes_prompt, scenes, image_results, images,
                   selection_results, fetch_results, product_images_cache, compose_tasks_list,
                   compose_results, composed, mask_tasks_list, mask_results, masks, placements,
                   stats, calls, saved>>

ComposeBatchStart ==
    /\ endpoint = "compose_batch" /\ pc = "start"
    /\ compose_results' = AllPending(Len(request.tasks))
    /\ calls' = [ calls EXCEPT !.edit_image = @ + Len(request.tasks) ]
    /\ pc' = "gather"
    /\ UNCHANGED <<pvars, svars, fvars, logged, store_errors, finished, endpoint, request, scenes_prompt, scenes, image_results, images,
                   selection_results, selections, fetch_results, product_images_cache,
                   compose_tasks_list, composed, mask_tasks_list, mask_results, masks,
                   placements, stats, response, saved>>

\* The response's images are kept in composed.
ComposeBatchGathered ==
    /\ endpoint = "compose_batch" /\ pc = "gather" /\ AllDone(compose_results)
    /\ composed' = Successes(compose_results)
    /\ response' = OkResponse
    /\ pc' = "done"
    /\ logged' = LogFailures("placement_single_compose_failed", compose_results, request.tasks)
    /\ UNCHANGED <<pvars, svars, fvars, store_errors, finished, endpoint, request, scenes_prompt, scenes, image_results, images,
                   selection_results, selections, fetch_results, product_images_cache,
                   compose_tasks_list, compose_results, mask_tasks_list, mask_results, masks,
                   placements, stats, calls, saved>>

GenerateMasksStart ==
    /\ endpoint = "generate_masks" /\ pc = "start"
    /\ mask_results' = AllPending(Len(request.tasks))
    /\ calls' = [ calls EXCEPT !.edit_image = @ + Len(request.tasks) ]
    /\ pc' = "gather"
    /\ UNCHANGED <<pvars, svars, fvars, logged, store_errors, finished, endpoint, request, scenes_prompt, scenes, image_results, images,
                   selection_results, selections, fetch_results, product_images_cache,
                   compose_tasks_list, compose_results, composed, mask_tasks_list, masks,
                   placements, stats, response, saved>>

GenerateMasksGathered ==
    /\ endpoint = "generate_masks" /\ pc = "gather" /\ AllDone(mask_results)
    /\ masks' = Successes(mask_results)
    /\ response' = OkResponse
    /\ pc' = "done"
    /\ logged' = LogFailures("placement_single_mask_failed", mask_results, request.tasks)
    /\ UNCHANGED <<pvars, svars, fvars, store_errors, finished, endpoint, request, scenes_prompt, scenes, image_results, images,
                   selection_results, selections, fetch_results, product_images_cache,
                   compose_tasks_list, compose_results, composed, mask_tasks_list, mask_results,
                   placements, stats, calls, saved>>

\* ------------------------------------------------------ the generation store

\* Number of calls that write to the store in one run.
MaxStoreCalls == 2

\* The dates the clock passes through, as strftime("%Y-%m-%d") gives them,
\* and the times of day, as strftime("%H%M%S") gives them, in order.
Days == <<"2025-01-01", "2025-01-02">>

Clock == <<"120000", "120001">>

\* Values of uuid.uuid4().hex[:6], in the order of their strings.
HexSuffixes == <<"0a1b2c", "ffffff">>

Range(seq) == { seq[i] : i \in 1..Len(seq) }

Index(seq, x) == CHOOSE i \in 1..Len(seq) : seq[i] = x

\* The clock after midnight has passed.
NextDay(clock) == [ date |-> Days[Index(Days, clock.date) + 1], hms |-> Clock[1] ]

\* What the r-th datetime.now() of a call gives, for a call that starts at
\* clock; midnight passes just before the call's read number turn, and
\* does not pass during the call when turn is 0.
ClockAt(clock, turn, r) == IF turn # 0 /\ r >= turn THEN NextDay(clock) ELSE clock

\* f"{datetime.now().strftime('%H%M%S')}_{uuid.uuid4().hex[:6]}"
generate_id(clock, hex) == [ hms |-> clock.hms, hex |-> hex ]

NoId == [ hms |-> "", hex |-> "" ]

\* The generation_id save_image is given: gen_id, or f"{gen_id}_{i}".
ImgId(gen_id, index) == [ gen |-> gen_id, index |-> index ]

\* Media items: base64 data and a MIME type ("" when the key is absent).
\* b64decode raises on the data "=".
PngItem == [ data |-> "iVBORw0KGgo=", mime_type |-> "image/png" ]

JpegItem == [ data |-> "/9j/4AAQ", mime_type |-> "image/jpeg" ]

BadItem == [ data |-> "=", mime_type |-> "" ]

\* The images_base64 argument of save_generation; <<>> stands for None too.
MediaLists == { <<>>, <<PngItem>>, <<BadItem>>, <<PngItem, BadItem, JpegItem>> }

\* The image a caller of save_image passes in.
DirectImages == { [ data |-> "iVBORw0KGgoAAAANSUhEUg==", mime_type |-> "image/png" ] }

Decodes(data) == data # "="

\* img.get("mime_type", "image/png")
MimeOf(img) == IF img.mime_type = "" THEN "image/png" ELSE img.mime_type

\* "png" if "png" in mime_type else "jpg" if "jpeg" in mime_type else "webp"
Ext(mime_type) ==
    IF mime_type = "image/png" THEN "png"
    ELSE IF mime_type = "image/jpeg" THEN "jpg"
    ELSE "webp"

FileName(prefix, id, ext) == [ prefix |-> prefix, id |-> id, ext |-> ext ]

\* IMAGES_DIR / date / f"img_{gen_id}.{ext}"
ImagePath(date, img_id, ext) ==
    [ root |-> "images", date |-> date, name |-> FileName("img", img_id, ext) ]

\* LOGS_DIR / date / f"gen_{gen_id}.json"
LogFilePath(date, gen_id) ==
    [ root |-> "logs", date |-> date, name |-> FileName("gen", ImgId(gen_id, ""), "json") ]

\* f"{date_dir.name}/{filename}"
RelPath(path) == [ date |-> path.date, name |-> path.name ]

NoPath == [ date |-> "", name |-> FileName("", ImgId(NoId, ""), "") ]

NoFiles == [ p \in {} |-> "" ]

\* write_bytes, write_text: the file is created, or its content replaced.
WriteFile(fs, path, content) ==
    [ p \in DOMAIN fs \cup { path } |-> IF p = path THEN content ELSE fs[p] ]

\* What save_image does to the files, and what it returns or that it raises.
save_image(fs, clock, image_base64, mime_type, img_id) ==
    LET path == ImagePath(clock.date, img_id, Ext(mime_type))
    IN  IF Decodes(image_base64)
        THEN [ raised |-> FALSE, files |-> WriteFile(fs, path, image_base64),
               rel_path |-> RelPath(path) ]
        ELSE [ raised |-> TRUE, files |-> fs, rel_path |-> NoPath ]

\* The entry save_generation appends for a media item that was not saved.
NoneEntry == [ path |-> NoPath, mime_type |-> "" ]

AnyEntry(entry) == TRUE

WasSaved(entry) == entry # NoneEntry

\* The loop of save_generation over images_base64, from item i on; the
\* save_image call of item i makes the read number i + 1 of the clock.
RECURSIVE SaveImages(_, _, _, _, _, _)
SaveImages(fs, clock, turn, gen_id, images_base64, i) ==
    IF i > Len(images_base64)
    THEN [ files |-> fs, image_paths |-> <<>> ]
    ELSE LET img == images_base64[i]
             img_id == IF Len(images_base64) > 1 THEN ImgId(gen_id, ToString(i - 1))
                       ELSE ImgId(gen_id, "")
             r == save_image(fs, ClockAt(clock, turn, i + 1), img.data, MimeOf(img), img_id)
             rest == SaveImages(r.files, clock, turn, gen_id, images_base64, i + 1)
             entry == IF r.raised THEN NoneEntry
                      ELSE [ path |-> r.rel_path, mime_type |-> MimeOf(img) ]
         IN  [ files |-> rest.files, image_paths |-> <<entry>> \o rest.image_paths ]

\* datetime.now().isoformat(): the date, the time of day, and n for the
\* fraction of the second, which grows from one call to the next.
Timestamp(clock, n) == [ date |-> clock.date, hms |-> clock.hms, n |-> n ]

LogEntry(gen_id, timestamp, ep, imgs) ==
    [ id |-> gen_id, timestamp |-> timestamp, endpoint |-> ep, images |-> imgs ]

\* What save_generation_log writes and returns; clock is read for the
\* directory and stamp, after it, for the timestamp.
save_generation_log(fs, clock, stamp, n, ep, imgs, gen_id) ==
    LET path == LogFilePath(clock.date, gen_id)
    IN  [ files |-> WriteFile(fs, path, LogEntry(gen_id, Timestamp(stamp, n), ep, imgs)),
          rel_path |-> RelPath(path) ]

Raised == [ exc |-> "OSError" ]

\* What save_generation does to the files and what it returns; write_ok is
\* whether the write of the log file succeeds.  The clock is read for the
\* id, then once in each save_image call, then twice in save_generation_log.
save_generation(fs, clock, turn, n, hex, ep, images_base64, write_ok) ==
    LET gen_id == generate_id(ClockAt(clock, turn, 1), hex)
        imgs == SaveImages(fs, clock, turn, gen_id, images_base64, 1)
        log == save_generation_log(imgs.files, ClockAt(clock, turn, Len(images_base64) + 2),
                                   ClockAt(clock, turn, Len(images_base64) + 3), n, ep,
                                   SelectSeq(imgs.image_paths, WasSaved), gen_id)
    IN  IF write_ok
        THEN [ files |-> log.files,
               ret |-> [ generation_id |-> gen_id, log_path |-> log.rel_path,
                         image_paths |-> imgs.image_paths ] ]
        ELSE [ files |-> imgs.files, ret |-> Raised ]

\* The string order of two log file names of one directory.
NameBefore(a, b) ==
    \/ Index(Clock, a.id.gen.hms) < Index(Clock, b.id.gen.hms)
    \/ /\ a.id.gen.hms = b.id.gen.hms
       /\ Index(HexSuffixes, a.id.gen.hex) < Index(HexSuffixes, b.id.gen.hex)

\* sorted(paths, reverse=True)
RECURSIVE SortedReverse(_)
SortedReverse(paths) ==
    IF paths = {} THEN <<>>
    ELSE LET last == CHOOSE p \in paths : \A q \in paths \ { p } : NameBefore(q.name, p.name)
         IN  <<last>> \o SortedReverse(paths \ { last })

\* date_dir.glob("gen_*.json")
LogFilesOf(fs, date) == { p \in DOMAIN fs : p.root = "logs" /\ p.date = date }

LogsOfDay(fs, date) ==
    LET paths == SortedReverse(LogFilesOf(fs, date))
    IN  [ i \in 1..Len(paths) |-> fs[paths[i]] ]

\* The logs of the days from Days[k] down to the first one.
RECURSIVE LogsDownFrom(_, _)
LogsDownFrom(fs, k) ==
    IF k = 0 THEN <<>> ELSE LogsOfDay(fs, Days[k]) \o LogsDownFrom(fs, k - 1)

\* date "" stands for None.
list_generation_logs(fs, date) ==
    IF date # "" THEN LogsOfDay(fs, date) ELSE LogsDownFrom(fs, Len(Days))

\* The path when the file exists, otherwise None.
get_image_path(fs, date, filename) ==
    LET path == [ root |-> "images", date |-> date, name |-> filename ]
    IN  IF path \in DOMAIN fs THEN path ELSE NoPath

\* For each path, the content it first had.
FirstWritten(old, fs) ==
    [ p \in DOMAIN fs |-> IF p \in DOMAIN old THEN old[p] ELSE fs[p] ]

StoreEndpoints == { "/api/placement/generate-images" }

StoreIdle ==
    /\ now = [ date |-> Days[1], hms |-> Clock[1] ]
    /\ files = NoFiles /\ written = NoFiles
    /\ issued = <<>>
    /\ serial = 0 /\ ncalls = 0
    /\ sop = "none" /\ sarg = <<>> /\ sret = <<>>

\* A generation id a caller passes in; NoId stands for None.
GivenIds == { generate_id([ hms |-> Clock[1] ], HexSuffixes[1]) }

StoreWrites(op, arg, fs, ret) ==
    /\ ncalls < MaxStoreCalls
    /\ sarg' = arg
    /\ files' = fs
    /\ written' = FirstWritten(written, fs)
    /\ serial' = serial + 1
    /\ ncalls' = ncalls + 1
    /\ sop' = op
    /\ sret' = ret

\* The reads of the clock before which midnight passes during a
\* save_generation call with these media, 0 when it does not pass: a call
\* that crosses midnight starts at the last instant of its day, and midnight
\* passes after the id is made (before read 2, the first save_image) or
\* after the loop (before the first read of save_generation_log).
Turns(clock, media) ==
    IF Index(Days, clock.date) < Len(Days) /\ clock.hms = Clock[Len(Clock)]
    THEN { 0, 2, Len(media) + 2 } ELSE { 0 }

\* One call of save_generation, from its first to its last statement.
CallSaveGeneration ==
    /\ \E ep \in StoreEndpoints, media \in MediaLists,
          hex \in Range(HexSuffixes), write_ok \in BOOLEAN :
        \E turn \in Turns(now, media) :
            LET r == save_generation(files, now, turn, serial, hex, ep, media, write_ok)
            IN  /\ StoreWrites("save_generation", [ media |-> media, write_ok |-> write_ok ],
                               r.files, r.ret)
                /\ issued' = IF write_ok
                             THEN Append(issued, [ date |-> r.ret.log_path.date,
                                                   id_date |-> ClockAt(now, turn, 1).date,
                                                   n |-> serial, media |-> media, ret |-> r.ret ])
                             ELSE issued
                /\ now' = ClockAt(now, turn, Len(media) + 3)
    /\ UNCHANGED <<pvars, hvars, fvars>>

\* One call of save_image from outside save_generation.
CallSaveImage ==
    /\ \E img \in DirectImages, given \in GivenIds \cup { NoId }, hex \in Range(HexSuffixes) :
        LET gen_id == IF given # NoId THEN given ELSE generate_id(now, hex)
            r == save_image(files, now, img.data, MimeOf(img), ImgId(gen_id, ""))
        IN  StoreWrites("save_image", [ image |-> img, generation_id |-> given ], r.files,
                        IF r.raised THEN Raised ELSE r.rel_path)
    /\ UNCHANGED <<now, issued, pvars, hvars, fvars>>

\* One call of save_generation_log from outside save_generation.
CallSaveGenerationLog ==
    /\ \E ep \in StoreEndpoints, given \in GivenIds \cup { NoId }, hex \in Range(HexSuffixes) :
        LET gen_id == IF given # NoId THEN given ELSE generate_id(now, hex)
            r == save_generation_log(files, now, now, serial, ep, <<>>, gen_id)
        IN  StoreWrites("save_generation_log", [ generation_id |-> given ], r.files, r.rel_path)
    /\ UNCHANGED <<now, issued, pvars, hvars, fvars>>

CallListGenerationLogs ==
    /\ \E date \in Range(Days) \cup { "" } :
        /\ sret' = list_generation_logs(files, date)
        /\ sarg' = [ date |-> date ]
        /\ sop' = "list_generation_logs"
    /\ UNCHANGED <<now, files, written, issued, serial, ncalls, pvars, hvars, fvars>>

CallGetImagePath ==
    /\ \E date \in Range(Days),
          filename \in { FileName("img", ImgId(id, ""), "png") : id \in GivenIds } :
        /\ sret' = get_image_path(files, date, filename)
        /\ sarg' = [ date |-> date, filename |-> filename ]
        /\ sop' = "get_image_path"
    /\ UNCHANGED <<now, files, written, issued, serial, ncalls, pvars, hvars, fvars>>

\* The second passes.
ClockTicks ==
    /\ Index(Clock, now.hms) < Len(Clock)
    /\ now' = [ now EXCEPT !.hms = Clock[Index(Clock, now.hms) + 1] ]
    /\ UNCHANGED <<files, written, issued, serial, ncalls, sop, sarg, sret, pvars, hvars, fvars>>

\* Midnight passes.
DayEnds ==
    /\ Index(Days, now.date) < Len(Days)
    /\ now' = NextDay(now)
    /\ UNCHANGED <<files, written, issued, serial, ncalls, sop, sarg, sret, pvars, hvars, fvars>>

\* ------------------------------------------------------ fetch_image_from_url

\* Bodies are sequences of bytes.
PngSignature == <<137, 80, 78, 71, 13, 10, 26, 10>>

JpegSignature == <<255, 216>>

Riff == <<82, 73, 70, 70>>

Webp == <<87, 69, 66, 80>>

\* data[a:b], positions counted from 0
Slice(data, a, b) == SubSeq(data, a + 1, Min({ b, Len(data) }))

\* The body of the response: a PNG, a JPEG, a WebP and a WAV file, an HTML
\* page, half a PNG signature, nothing.
Bodies ==
    { PngSignature \o <<0, 0, 0, 13>>,
      JpegSignature \o <<255, 224>>,
      Riff \o <<36, 0, 0, 0>> \o Webp \o <<86, 80, 56>>,
      Riff \o <<36, 0, 0, 0>> \o <<87, 65, 86, 69>>,
      <<60, 104, 116, 109, 108, 62>>,
      <<137, 80, 78, 71>>,
      <<>> }

\* Values of the content-type header, as tokens.
ContentTypes ==
    { <<"image", "/", "png">>,
      <<"image", "/", "webp", ";", " ", "charset=binary">>,
      <<" ", "image", "/", "svg+xml", " ">>,
      <<"text", "/", "html", ";", " ", "charset=utf-8">>,
      <<"application", "/", "octet-stream">>,
      <<"IMAGE", "/", "PNG">>,
      <<>> }

\* What client.get and raise_for_status may end with: a response, an
\* httpx.HTTPError (no connection, an error status), another exception.
Transports == { "ok", "connect_error", "status_error", "invalid_url" }

FetchWorlds ==
    [ transport : Transports, has_content_type : BOOLEAN, content_type : ContentTypes,
      content : Bodies ]

\* content_type.split(";")[0]
BeforeSemicolon(tokens) ==
    LET at == { i \in 1..Len(tokens) : tokens[i] = ";" }
    IN  IF at = {} THEN tokens ELSE SubSeq(tokens, 1, Min(at) - 1)

\* mime_type.startswith("image/")
StartsWithImage(mime_type) ==
    Len(mime_type) >= 2 /\ mime_type[1] = "image" /\ mime_type[2] = "/"

\* The detection from the content, for a declared type that is no image type.
Sniff(data) ==
    IF Slice(data, 0, 8) = PngSignature THEN <<"image", "/", "png">>
    ELSE IF Slice(data, 0, 2) = JpegSignature THEN <<"image", "/", "jpeg">>
    ELSE IF Slice(data, 0, 4) = Riff /\ Slice(data, 8, 12) = Webp THEN <<"image", "/", "webp">>
    ELSE <<"image", "/", "jpeg">>

FetchError(message) == [ exc |-> "ValueError", message |-> message ]

\* What fetch_image_from_url returns, or the exception it raises.
fetch_image_from_url(w) ==
    IF w.transport = "ok"
    THEN LET content_type == IF w.has_content_type THEN w.content_type
                             ELSE <<"image", "/", "jpeg">>
             mime_type == Strip(BeforeSemicolon(content_type))
         IN  [ content |-> w.content,
               mime_type |-> IF StartsWithImage(mime_type) THEN mime_type ELSE Sniff(w.content) ]
    ELSE IF w.transport \in { "connect_error", "status_error" }
    THEN FetchError("Failed to fetch image from url")
    ELSE FetchError("Failed to fetch image")

NoWorld == [ transport |-> "none" ]

FetchIdle == fworld = NoWorld /\ fpc = "idle" /\ fresult = <<>>

InitFetch ==
    /\ fworld \in FetchWorlds
    /\ fpc = "call"
    /\ fresult = <<>>
    /\ endpoint = "none" /\ request = <<>>
    /\ HandlerIdle
    /\ ParserIdle
    /\ StoreIdle

CallFetchImageFromUrl ==
    /\ fpc = "call"
    /\ fresult' = fetch_image_from_url(fworld)
    /\ fpc' = "returned"
    /\ UNCHANGED <<fworld, pvars, hvars, svars>>

NextFetch == CallFetchImageFromUrl

InitStore ==
    /\ StoreIdle
    /\ endpoint = "none" /\ request = <<>>
    /\ HandlerIdle
    /\ ParserIdle
    /\ FetchIdle

NextStore ==
    \/ CallSaveGeneration
    \/ CallSaveImage
    \/ CallSaveGenerationLog
    \/ CallListGenerationLogs
    \/ CallGetImagePath
    \/ ClockTicks
    \/ DayEnds

\* ------------------------------------------------------------ parser calls

InitParse ==
    /\ \/ pfun = "parse_scenes_xml" /\ pchunks \in SeqsUpTo(SceneChunks, MaxSceneChunks)
          /\ pscene_id = ""
       \/ pfun = "parse_selection_xml" /\ pchunks \in SeqsUpTo(SelChunks, MaxSelChunks)
          /\ pscene_id \in SceneIds
    /\ ptext = Tokens(pchunks)
    /\ ppc = "call"
    /\ presult = <<>>
    /\ endpoint = "none" /\ request = <<>>
    /\ HandlerIdle
    /\ StoreIdle
    /\ FetchIdle

CallParseScenes ==
    /\ ppc = "call" /\ pfun = "parse_scenes_xml"
    /\ presult' = parse_scenes_xml(ptext)
    /\ ppc' = "returned"
    /\ UNCHANGED <<pfun, pchunks, ptext, pscene_id, hvars, svars, fvars>>

CallParseSelection ==
    /\ ppc = "call" /\ pfun = "parse_selection_xml"
    /\ presult' = parse_selection_xml(ptext, pscene_id)
    /\ ppc' = "returned"
    /\ UNCHANGED <<pfun, pchunks, ptext, pscene_id, hvars, svars, fvars>>

Init ==
    /\ endpoint \in Endpoints
    /\ request \in RequestsOf(endpoint)
    /\ HandlerIdle
    /\ ParserIdle
    /\ StoreIdle
    /\ FetchIdle

NextParse == CallParseScenes \/ CallParseSelection

Next ==
    \/ RunPipelineStart
    \/ SceneQueryReturns
    \/ \E i \in DOMAIN image_results : ImageCallCompletes(i)
    \/ ImagesGathered
    \/ \E i \in DOMAIN selection_results : SelectionCallCompletes(i)
    \/ SelectionsGathered
    \/ \E i \in DOMAIN fetch_results : FetchCompletes(i)
    \/ FetchesGathered
    \/ \E i \in DOMAIN compose_results : ComposeCallCompletes(i)
    \/ ComposeGathered
    \/ \E i \in DOMAIN mask_results : MaskCallCompletes(i)
    \/ MasksGathered
    \/ GenerateScenesStart
    \/ GenerateScenesReturns
    \/ GenerateImagesStart
    \/ GenerateImagesGathered
    \/ SelectProductsStart
    \/ SelectProductsGathered
    \/ ComposeBatchStart
    \/ ComposeBatchGathered
    \/ GenerateMasksStart
    \/ GenerateMasksGathered

Spec == Init /\ [][Next]_vars

SpecParse == InitParse /\ [][NextParse]_vars

SpecStore == InitStore /\ [][NextStore]_vars

SpecFetch == InitFetch /\ [][NextFetch]_vars

\* --------------------------------------------------------- parser properties

IsBlock(c) == c.kind = "block"

\* What a well-formed block stands for: its id, its description and mood as
\* written between the tags, its type attribute.
ExpectedScene(c) ==
    [ id |-> "scene-" \o c.id, description |-> c.d, mood |-> c.m,
      scene_type |-> IF c.type = "" THEN "exploration" ELSE c.type ]

OnlyBlocksAndProse ==
    \A i \in 1..Len(pchunks) : pchunks[i].kind \in { "block", "prose" }

SelFields == { "product_id", "placement", "rationale" }

OpenOf(f) == "<" \o f \o ">"

CloseOf(f) == "</" \o f \o ">"

\* A field is present when some opening tag of it is followed by a closing tag.
Present(text, f) ==
    \E i, j \in 1..Len(text) : i < j /\ text[i] = OpenOf(f) /\ text[j] = CloseOf(f)

\* The content of the first occurrence of a field, whitespace trimmed.
FirstOccurrence(text, f) ==
    LET i == Min({ n \in 1..Len(text) : text[n] = OpenOf(f) })
        j == Min({ n \in (i + 1)..Len(text) : text[n] = CloseOf(f) })
    IN  Strip(SubSeq(text, i + 1, j - 1))

\* The content of the first chunk that is the field f.
FirstFieldChunk(f) ==
    LET i == Min({ n \in 1..Len(pchunks) : pchunks[n].name = f })
    IN  Strip(SubSeq(pchunks[i].tokens, 2, Len(pchunks[i].tokens) - 1))

\* C10: parse_selection_xml fails with a parse error when product_id,
\* placement or rationale is absent and returns no partial selection; when
\* all three are present it returns the selection of the given scene_id
\* built from the first occurrence of each field, whatever prose or
\* repeated tags surround them.
C10_SelectionAllOrNothing ==
    (ppc = "returned" /\ pfun = "parse_selection_xml") =>
        IF \A f \in SelFields : Present(ptext, f)
        THEN /\ presult = [ scene_id |-> pscene_id,
                            selected_product_id |-> FirstOccurrence(ptext, "product_id"),
                            placement_hint |-> FirstOccurrence(ptext, "placement"),
                            rationale |-> FirstOccurrence(ptext, "rationale"),
                            match_score |-> 5 ]
             /\ (\A i \in 1..Len(pchunks) : pchunks[i].kind # "malformed") =>
                    /\ presult.selected_product_id = FirstFieldChunk("product_id")
                    /\ presult.placement_hint = FirstFieldChunk("placement")
                    /\ presult.rationale = FirstFieldChunk("rationale")
        ELSE presult = ParseError

C10_Witness ==
    /\ ppc = "returned" /\ pfun = "parse_selection_xml"
    /\ Len(pchunks) = 4
    /\ pchunks[1].kind = "prose"
    /\ pchunks[2] = Field("rationale", <<"fits">>)
    /\ pchunks[3] = Field("placement", <<"on", " ", "table">>)
    /\ pchunks[4] = Field("product_id", <<" ", "NONE", "\n">>)
    /\ presult.selected_product_id = <<"NONE">>
    /\ presult.rationale = <<"fits">>

\* ------------------------------------------------------- handler properties

NFailed(results) == Cardinality({ i \in 1..Len(results) : results[i] = Exc })

NSucceeded(results) == Cardinality({ i \in 1..Len(results) : results[i] \notin { Exc, Pending } })

\* All N >= 1 calls of a stage have ended and K < N of them failed.
SomeSucceeded(results) ==
    /\ results # <<>>
    /\ AllDone(results)
    /\ NFailed(results) < Len(results)

\* The stage's output holds the results of the calls that succeeded and
\* nothing else, each with the scene_id of the item it was called for.
StageYields(results, input_ids, outputs) ==
    LET good == SuccessIdx(results)
    IN  /\ Len(outputs) = Len(results) - NFailed(results)
        /\ \A n \in 1..Len(outputs) :
              /\ outputs[n] = results[good[n]]
              /\ outputs[n].scene_id = input_ids[good[n]]

ReqSceneIds(items) == [ i \in 1..Len(items) |-> items[i].scene_id ]

\* C1: in every fanned stage, as a batch operation and inside run_pipeline,
\* when N calls are issued and K < N of them fail, the stage yields exactly
\* the N-K results of the calls that succeeded, each carrying the scene_id of
\* its own input item, and the operation does not fail.
C1_PartialFailureIsolated ==
    /\ (endpoint = "pipeline" /\ pc \notin { "start", "step1", "step2" }
            /\ SomeSucceeded(image_results)) =>
          /\ StageYields(image_results, [ i \in 1..Len(scenes) |-> scenes[i].id ], images)
          /\ response.detail # "Failed to generate any images"
    /\ (endpoint = "pipeline" /\ pc \notin { "start", "step1", "step2", "step3" }
            /\ SomeSucceeded(selection_results)) =>
          /\ StageYields(selection_results, ReqSceneIds(images), selections)
          /\ response.detail # "Failed to select any products"
    /\ (endpoint = "pipeline" /\ pc \notin { "start", "step1", "step2", "step3", "fetch", "step4" }
            /\ SomeSucceeded(compose_results)) =>
          /\ StageYields(compose_results,
                         [ i \in 1..Len(compose_tasks_list) |-> compose_tasks_list[i][1].scene_id ],
                         [ n \in 1..Len(composed) |-> composed[n][1] ])
          /\ response.detail # "Failed to compose any images"
    /\ (endpoint = "pipeline" /\ pc \in { "done", "failed" } /\ SomeSucceeded(mask_results)) =>
          LET good == SuccessIdx(mask_results)
          IN  /\ pc = "done" /\ response = OkResponse
              /\ stats.steps["5_masks"] = Len(mask_results) - NFailed(mask_results)
              /\ Len(placements) = Len(mask_results) - NFailed(mask_results)
              /\ \A n \in 1..Len(placements) :
                    /\ placements[n].mask = mask_results[good[n]].mask_data
                    /\ placements[n].scene_id = mask_tasks_list[good[n]][1].scene_id
    /\ (endpoint = "generate_images" /\ pc \in { "done", "failed" }
            /\ SomeSucceeded(image_results)) =>
          /\ StageYields(image_results, ReqSceneIds(request.scenes), images)
          /\ response = OkResponse
    /\ (endpoint = "select_products" /\ pc \in { "done", "failed" }
            /\ SomeSucceeded(selection_results)) =>
          /\ StageYields(selection_results, ReqSceneIds(request.images), selections)
          /\ response = OkResponse
    /\ (endpoint = "compose_batch" /\ pc \in { "done", "failed" }
            /\ SomeSucceeded(compose_results)) =>
          /\ StageYields(compose_results, ReqSceneIds(request.tasks), composed)
          /\ response = OkResponse
    /\ (endpoint = "generate_masks" /\ pc \in { "done", "failed" }
            /\ SomeSucceeded(mask_results)) =>
          /\ StageYields(mask_results, ReqSceneIds(request.tasks), masks)
          /\ response = OkResponse

C1_Witness ==
    /\ endpoint = "pipeline" /\ pc = "done"
    /\ Len(image_results) = 2 /\ NFailed(image_results) = 1 /\ Len(images) = 1
    /\ image_results[1] = Exc
    /\ images[1].scene_id = scenes[2].id
    /\ Len(placements) = 1

\* C2: in run_pipeline, a stage (scenes, images, selection, composition,
\* masks) that yields zero successful items ends the invocation with a
\* reported error instead of a success response, and no call of a later
\* stage is issued.
C2_ZeroSuccessAborts ==
    endpoint = "pipeline" =>
        /\ (pc \notin { "start", "step1", "failed" }) => scenes # <<>>
        /\ (pc \notin { "start", "step1", "step2" } /\ image_results # <<>>
                /\ NSucceeded(image_results) = 0) =>
              /\ pc = "failed" /\ response.status_code >= 400
              /\ calls.multimedia_query = 0 /\ calls.fetch = 0 /\ calls.edit_image = 0
        /\ (pc \notin { "start", "step1", "step2", "step3" } /\ selection_results # <<>>
                /\ NSucceeded(selection_results) = 0) =>
              /\ pc = "failed" /\ response.status_code >= 400
              /\ calls.fetch = 0 /\ calls.edit_image = 0
        /\ (pc \notin { "start", "step1", "step2", "step3", "fetch", "step4" }
                /\ selections # <<>> /\ NSucceeded(compose_results) = 0) =>
              /\ pc = "failed" /\ response.status_code >= 400
              /\ mask_results = <<>>
        /\ (pc \notin { "start", "step1", "step2", "step3", "fetch", "step4", "step5" }
                /\ composed # <<>> /\ NSucceeded(mask_results) = 0) =>
              /\ pc = "failed" /\ response.status_code >= 400

AllSceneIds == { "scene-1", "scene-2" }

OkFor(results, sid) ==
    \E i \in 1..Len(results) : results[i] \notin { Exc, Pending } /\ results[i].scene_id = sid

\* Every link of the chain of scene_id sid exists.
FullChain(sid) ==
    /\ \E i \in 1..Len(scenes) : scenes[i].id = sid
    /\ OkFor(image_results, sid)
    /\ \E i \in 1..Len(selection_results) :
          /\ selection_results[i] \notin { Exc, Pending }
          /\ selection_results[i].scene_id = sid
          /\ selection_results[i].selected_product_id # <<"NONE">>
          /\ \E k \in 1..Len(request.products) :
                request.products[k].id = selection_results[i].selected_product_id
    /\ OkFor(compose_results, sid)
    /\ OkFor(mask_results, sid)

\* C3: when run_pipeline returns successfully, the placements hold a
\* PlacementResult for a scene_id if and only if a scene with it was parsed,
\* its image call succeeded, its selection call succeeded with a
\* selected_product_id that is not "NONE" and names a product of the catalog,
\* its composition call succeeded and its mask call succeeded.
C3_PlacementIffFullChain ==
    (endpoint = "pipeline" /\ pc = "done") =>
        \A sid \in AllSceneIds :
            (\E n \in 1..Len(placements) : placements[n].scene_id = sid) <=> FullChain(sid)

IsNoneSelection(sel) == sel \notin { Exc, Pending } /\ sel.selected_product_id = <<"NONE">>

\* C4: a successful selection whose selected_product_id is "NONE" is "no
\* match", not an error: for every catalog and every set of selections it
\* causes no composition call and no PlacementResult for its scene_id, and it
\* never makes run_pipeline report an error.
C4_NoneIsNoMatch ==
    endpoint = "pipeline" =>
        /\ \A i \in 1..Len(compose_tasks_list) : ~IsNoneSelection(compose_tasks_list[i][2])
        /\ \A n \in 1..Len(placements) :
              \A i \in 1..Len(mask_tasks_list) :
                  mask_tasks_list[i][1].composed_image = placements[n].composed_image
                      => ~IsNoneSelection(mask_tasks_list[i][3])
        /\ ~ ( /\ pc = "failed"
               /\ selections # <<>>
               /\ \A i \in 1..Len(selections) : IsNoneSelection(selections[i]) )

WholeRequest == "writing_context" \in DOMAIN request

\* The request has an empty or blank writing_context, no product, or a
\* scene_count outside 1..10.
Invalid(req) ==
    \/ \A i \in 1..Len(req.writing_context) : req.writing_context[i] \in WS
    \/ Len(req.products) = 0
    \/ req.scene_count \notin 1..10

\* C5: run_pipeline rejects a request with an empty or whitespace-only
\* writing_context, an empty product list or a scene_count outside 1..10
\* with an input-validation error, before any capability call, media fetch
\* or generation-store write; scene_count 1 and 10 are accepted.
C5_ValidationBeforeAnyCall ==
    (endpoint = "pipeline" /\ pc # "start") =>
        /\ (WholeRequest /\ Invalid(request)) =>
              /\ pc = "failed" /\ response.status_code = 400
              /\ calls = NoCalls /\ saved = NoSaved
        /\ (WholeRequest /\ ~Invalid(request)) => response.status_code # 400
        /\ ~WholeRequest =>
              /\ request.products # <<>> /\ request.scene_count \in 1..10
              /\ response.status_code # 400

C5_Witness ==
    /\ endpoint = "pipeline" /\ pc = "failed" /\ response.status_code = 400
    /\ request.scene_count = 11
    /\ request.products # <<>>
    /\ Strip(request.writing_context) # <<>>
    /\ calls = NoCalls

Abs(x) == IF x < 0 THEN -x ELSE x

\* c is num/den rounded to the nearest integer, a tie to the even one.
IsRounded(c, num, den) ==
    /\ 2 * Abs(den * c - num) <= den
    /\ 2 * Abs(den * c - num) = den => c % 2 = 0

\* C6: for an accepted request, continuation_count is
\* round(scene_count * continuation_ratio) and exploration_count is
\* scene_count - continuation_count when there is liked-scene history
\* (5 and 0.6 give 3 and 2); with no history they are 0 and scene_count; the
\* two sum to scene_count.
C6_ContinuationSplit ==
    (endpoint = "pipeline" /\ pc = "step1") =>
        LET n == request.scene_count
            c == scenes_prompt.continuation_count
            e == scenes_prompt.exploration_count
        IN  /\ scenes_prompt.total_count = n
            /\ c + e = n
            /\ request.liked_scenes # <<>> =>
                  /\ IsRounded(c, n * request.continuation_ratio, 100)
                  /\ e = n - c
                  /\ (n = 5 /\ request.continuation_ratio = 60) => (c = 3 /\ e = 2)
            /\ request.liked_scenes = <<>> => (c = 0 /\ e = n)

C6_Witness ==
    /\ endpoint = "pipeline" /\ pc = "step1"
    /\ request.scene_count = 5 /\ request.continuation_ratio = 60
    /\ request.liked_scenes # <<>>
    /\ scenes_prompt.continuation_count = 3 /\ scenes_prompt.exploration_count = 2

\* C7: a successful run_pipeline call with scene_count = n returns between 0
\* and n PlacementResult entries, whatever the scene stage's response is.
C7_AtMostSceneCountPlacements ==
    (endpoint = "pipeline" /\ pc = "done") => Len(placements) \in 0..request.scene_count

StepNames == { "1_scenes", "2_images", "3_selections", "4_compose", "5_masks" }

\* C8: a successful run_pipeline response has a stats entry for each of the
\* five stages, whose count is the number of items that succeeded in it; the
\* counts do not increase from stage 1 to stage 5, and placements_generated
\* is the stage-5 count and the length of the placements list.
C8_StatsCounts ==
    (endpoint = "pipeline" /\ pc = "done") =>
        /\ DOMAIN stats.steps = StepNames
        /\ stats.steps["1_scenes"] = Len(scenes)
        /\ stats.steps["2_images"] = NSucceeded(image_results)
        /\ stats.steps["3_selections"] = NSucceeded(selection_results)
        /\ stats.steps["4_compose"] = NSucceeded(compose_results)
        /\ stats.steps["5_masks"] = NSucceeded(mask_results)
        /\ stats.steps["1_scenes"] >= stats.steps["2_images"]
        /\ stats.steps["2_images"] >= stats.steps["3_selections"]
        /\ stats.steps["3_selections"] >= stats.steps["4_compose"]
        /\ stats.steps["4_compose"] >= stats.steps["5_masks"]
        /\ stats.placements_generated = stats.steps["5_masks"]
        /\ stats.placements_generated = Len(placements)

C8_Witness ==
    /\ endpoint = "pipeline" /\ pc = "done"
    /\ stats.steps["1_scenes"] = 2 /\ stats.steps["3_selections"] = 2
    /\ stats.steps["4_compose"] = 1 /\ stats.steps["5_masks"] = 0
    /\ NFailed(mask_results) = 1
    /\ placements = <<>>

\* C11: every invocation of the generative capability made by run_pipeline
\* or by a stage operation (scene query, image generation, selection,
\* composition, mask) creates exactly one generation record: when the
\* operation has ended, the store holds as many records of each kind as
\* invocations of that kind were made.
C11_OneRecordPerInvocation ==
    pc \in { "done", "failed" } =>
        /\ saved["/api/placement/scenes"] = calls.query
        /\ saved["/api/placement/generate-images"] = calls.generate_image
        /\ saved["/api/placement/select-products"] = calls.multimedia_query
        /\ saved["/api/placement/compose-batch"] + saved["/api/placement/generate-masks"]
              = calls.edit_image

ResultsOf(tag) ==
    CASE tag = "/api/placement/generate-images" -> image_results
      [] tag = "/api/placement/select-products" -> selection_results
      [] tag = "/api/placement/compose-batch" -> compose_results
      [] tag = "/api/placement/generate-masks" -> mask_results
      [] OTHER -> <<>>

\* C12: a generation-store write error is never fatal: when save_generation
\* fails for an item whose capability call and parse succeeded, the item's
\* result is still returned by its stage, and the stage or pipeline call
\* does not fail because of it.
C12_StoreErrorNotFatal ==
    \A e \in store_errors :
        IF e[1] = "/api/placement/scenes"
        THEN pc = "done" /\ scenes # <<>> /\ response = OkResponse
        ELSE /\ ResultsOf(e[1])[e[2]] # Exc
             /\ (Len(ResultsOf(e[1])) = 1 /\ endpoint = "pipeline") => pc # "failed"

\* The position of mask call i in the order of completion.
FinishedAt(i) == CHOOSE k \in 1..Len(finished) : finished[k] = i

\* C20: the placements list returned by run_pipeline is ordered by
\* completion: of any two returned placements, the one whose work finished
\* earlier comes first, wherever their scenes are in the stage-1 output.
C20_PlacementsInCompletionOrder ==
    (endpoint = "pipeline" /\ pc = "done") =>
        LET good == SuccessIdx(mask_results)
        IN  \A n, m \in 1..Len(placements) :
                n < m => FinishedAt(good[n]) < FinishedAt(good[m])

\* --------------------------------------------------------- store properties

SameDay(a, b) == issued[a].date = issued[b].date

\* The records list_generation_logs returns for a day include the one call a made.
Listed(a) ==
    \E k \in 1..Len(list_generation_logs(files, issued[a].date)) :
        LET entry == list_generation_logs(files, issued[a].date)[k]
        IN  entry.id = issued[a].ret.generation_id /\ entry.timestamp.n = issued[a].n

\* C13: any two save_generation calls made on the same day, also within the
\* same second, receive two distinct generation ids and write two distinct
\* audit files, and list_generation_logs for that day returns both records.
C13_DistinctIdsSameDay ==
    \A a, b \in 1..Len(issued) :
        (a < b /\ SameDay(a, b)) =>
            /\ issued[a].ret.generation_id # issued[b].ret.generation_id
            /\ issued[a].ret.log_path # issued[b].ret.log_path
            /\ Listed(a) /\ Listed(b)

\* C14: list_generation_logs for a day returns that day's records newest
\* first: of any two records of the day, the one created later comes before
\* the one created earlier, also when both were created in the same second.
C14_ListedNewestFirst ==
    \A date \in Range(Days) :
        LET logs == list_generation_logs(files, date)
        IN  \A i, j \in 1..Len(logs) :
                i < j => logs[i].timestamp.n > logs[j].timestamp.n

\* C15: the store is append-only: after any sequence of save_generation,
\* save_image, save_generation_log, list_generation_logs and get_image_path
\* calls, every audit file and media file once written still exists with
\* the content it was first written with.
C15_AppendOnly ==
    \A p \in DOMAIN written : p \in DOMAIN files /\ files[p] = written[p]

\* The positions of the media items that can be persisted.
Persistable(media) == { i \in 1..Len(media) : Decodes(media[i].data) }

\* The position in media of the k-th persistable item.
RECURSIVE KthPersistable(_, _, _)
KthPersistable(media, k, from) ==
    IF from \in Persistable(media)
    THEN IF k = 1 THEN from ELSE KthPersistable(media, k - 1, from + 1)
    ELSE KthPersistable(media, k, from + 1)

\* C16: when save_generation is given m media items and persisting some of
\* them fails, the audit record is still written and the call returns
\* normally; the record's media list holds exactly the items that were
\* persisted, in input order, and omits the ones that failed.
C16_FailedMediaOmitted ==
    (sop = "save_generation" /\ sarg.write_ok) =>
        /\ sret # Raised
        /\ LET media == sarg.media
               date == sret.log_path.date
               log == [ root |-> "logs", date |-> date, name |-> sret.log_path.name ]
           IN  /\ log \in DOMAIN files
               /\ files[log].id = sret.generation_id
               /\ Len(files[log].images) = Cardinality(Persistable(media))
               /\ \A k \in 1..Len(files[log].images) :
                     LET i == KthPersistable(media, k, 1)
                         listed == files[log].images[k]
                         file == [ root |-> "images", date |-> listed.path.date,
                                   name |-> listed.path.name ]
                     IN  /\ listed.mime_type = MimeOf(media[i])
                         /\ listed.path = sret.image_paths[i].path
                         /\ file \in DOMAIN files
                         /\ files[file] = media[i].data
               /\ \A i \in 1..Len(media) :
                     i \notin Persistable(media) => sret.image_paths[i] = NoneEntry

C16_Witness ==
    /\ sop = "save_generation" /\ sarg.write_ok
    /\ sarg.media = <<PngItem, BadItem, JpegItem>>
    /\ sret # Raised
    /\ sret.image_paths[2] = NoneEntry
    /\ LET log == [ root |-> "logs", date |-> sret.log_path.date, name |-> sret.log_path.name ]
       IN  /\ Len(files[log].images) = 2
           /\ files[log].images[1].mime_type = "image/png"
           /\ files[log].images[2].mime_type = "image/jpeg"

\* C17: every media file written by a save_generation call is named from
\* the generation id of that call's audit entry, the id itself for a single
\* media item and the id followed by the item's index for several, so that
\* each media path listed in a record contains the record's id and no media
\* file of one record carries another record's id.
C17_MediaNamedFromRecordId ==
    /\ \A a \in 1..Len(issued) :
          \A i \in 1..Len(issued[a].media) :
              LET entry == issued[a].ret.image_paths[i]
              IN  entry # NoneEntry =>
                      /\ entry.path.name.id.gen = issued[a].ret.generation_id
                      /\ entry.path.name.id.index =
                            IF Len(issued[a].media) > 1 THEN ToString(i - 1) ELSE ""
    /\ \A p \in DOMAIN files :
          p.root = "logs" =>
              \A k \in 1..Len(files[p].images) : files[p].images[k].path.name.id.gen = files[p].id
    /\ \A a, b \in 1..Len(issued) :
          a # b =>
              \A i \in 1..Len(issued[a].media) :
                  issued[a].ret.image_paths[i] # NoneEntry =>
                      issued[a].ret.image_paths[i].path.name.id.gen # issued[b].ret.generation_id

\* --------------------------------------------------------- fetch properties

\* The MIME type the response declares, parameters and blanks removed.
Declared(w) == Strip(BeforeSemicolon(w.content_type))

DeclaresImage(w) ==
    /\ w.has_content_type
    /\ Len(Declared(w)) >= 3 /\ Declared(w)[1] = "image" /\ Declared(w)[2] = "/"

HasPrefix(data, sig) == Len(data) >= Len(sig) /\ SubSeq(data, 1, Len(sig)) = sig

IsPng(data) == HasPrefix(data, PngSignature)

IsJpeg(data) == HasPrefix(data, JpegSignature)

IsWebp(data) == HasPrefix(data, Riff) /\ Len(data) >= 12 /\ SubSeq(data, 9, 12) = Webp

\* C18: fetch_image_from_url returns the declared content type as MIME type
\* when it is an image type, and falls back to sniffing the body's signature
\* (PNG, JPEG, WebP) both when the declared type is no image type and when
\* no content type is declared at all.
C18_DeclaredTypeOrSniffed ==
    (fpc = "returned" /\ fworld.transport = "ok") =>
        /\ "mime_type" \in DOMAIN fresult
        /\ DeclaresImage(fworld) => fresult.mime_type = Declared(fworld)
        /\ ~DeclaresImage(fworld) =>
              /\ IsPng(fworld.content) => fresult.mime_type = <<"image", "/", "png">>
              /\ IsJpeg(fworld.content) => fresult.mime_type = <<"image", "/", "jpeg">>
              /\ IsWebp(fworld.content) => fresult.mime_type = <<"image", "/", "webp">>

TransportFailed(w) == w.transport # "ok"

NotAnImage(w) ==
    /\ w.transport = "ok"
    /\ w.has_content_type /\ ~DeclaresImage(w)
    /\ ~IsPng(w.content) /\ ~IsJpeg(w.content) /\ ~IsWebp(w.content)

\* The errors fetch_image_from_url raises for a transport failure.
TransportErrors == { fetch_image_from_url(w) : w \in { v \in FetchWorlds : TransportFailed(v) } }

\* C19: fetch_image_from_url fails with an error when the fetched content is
\* not an image (declared type no image type and no PNG/JPEG/WebP
\* signature), an error that differs from those of a transport failure; it
\* never returns the bytes with an image MIME type for such content.
C19_NotAnImageFails ==
    (fpc = "returned" /\ NotAnImage(fworld)) =>
        /\ "exc" \in DOMAIN fresult
        /\ fresult \notin TransportErrors

\* ------------------------------------------------- handler properties, part 2

\* The number of calls of a stage that failed for the scene_id sid.
FailedFor(results, ids, sid) ==
    Cardinality({ i \in 1..Len(results) : results[i] = Exc /\ ids[i] = sid })

\* The number of error-log entries that name the scene_id sid.
LoggedFor(sid) ==
    Cardinality({ n \in 1..Len(logged) : logged[n].level = "error" /\ logged[n].scene_id = sid })

\* C21: when a fanned stage has ended with K failed items, exactly K
\* error-log entries were emitted for it, one per failed item and naming
\* that item's scene_id, and none for an item that succeeded; in the batch
\* operations and in the stages of run_pipeline alike.
C21_ErrorEntryPerFailedItem ==
    /\ (endpoint = "generate_images" /\ pc = "done") =>
          \A sid \in AllSceneIds :
              LoggedFor(sid) = FailedFor(image_results, ReqSceneIds(request.scenes), sid)
    /\ (endpoint = "select_products" /\ pc = "done") =>
          \A sid \in AllSceneIds :
              LoggedFor(sid) = FailedFor(selection_results, ReqSceneIds(request.images), sid)
    /\ (endpoint = "compose_batch" /\ pc = "done") =>
          \A sid \in AllSceneIds :
              LoggedFor(sid) = FailedFor(compose_results, ReqSceneIds(request.tasks), sid)
    /\ (endpoint = "generate_masks" /\ pc = "done") =>
          \A sid \in AllSceneIds :
              LoggedFor(sid) = FailedFor(mask_results, ReqSceneIds(request.tasks), sid)
    /\ (endpoint = "pipeline" /\ pc \in { "done", "failed" }) =>
          \A sid \in AllSceneIds :
              LoggedFor(sid) =
                  FailedFor(image_results, [ i \in 1..Len(scenes) |-> scenes[i].id ], sid)
                  + FailedFor(selection_results, ReqSceneIds(images), sid)
                  + FailedFor(compose_results,
                              [ i \in 1..Len(compose_tasks_list) |-> compose_tasks_list[i][1].scene_id ], sid)
                  + FailedFor(mask_results,
                              [ i \in 1..Len(mask_tasks_list) |-> mask_tasks_list[i][1].scene_id ], sid)

\* The stages of run_pipeline in their order; the fetch of the product
\* images opens stage 4.
StageRank(p) ==
    CASE p = "start" -> 0
      [] p = "step1" -> 1
      [] p = "step2" -> 2
      [] p = "step3" -> 3
      [] p = "fetch" -> 4
      [] p = "step4" -> 5
      [] p = "step5" -> 6
      [] OTHER -> 7

NoneInFlight(results) == \A i \in 1..Len(results) : results[i] # Pending

\* The calls of a stage are issued at most once, and a call that has
\* completed keeps its result.
IssuedOnce(old, new) ==
    \/ old = <<>>
    \/ /\ Len(new) = Len(old)
       /\ \A i \in 1..Len(old) : old[i] # Pending => new[i] = old[i]

\* No call of a stage is issued while a call of an earlier stage is in flight.
StagesInOrder ==
    /\ (selection_results # <<>> \/ calls.multimedia_query > 0) => NoneInFlight(image_results)
    /\ (fetch_results # <<>> \/ calls.fetch > 0) =>
          NoneInFlight(image_results) /\ NoneInFlight(selection_results)
    /\ (compose_results # <<>> \/ calls.edit_image > 0) =>
          /\ NoneInFlight(image_results) /\ NoneInFlight(selection_results)
          /\ NoneInFlight(fetch_results)
    /\ mask_results # <<>> => NoneInFlight(compose_results)

\* When the pipeline has reported an error, no call is in flight and the
\* response carries the error alone.
AbortDrained ==
    pc = "failed" =>
        /\ NoneInFlight(image_results) /\ NoneInFlight(selection_results)
        /\ NoneInFlight(fetch_results) /\ NoneInFlight(compose_results)
        /\ NoneInFlight(mask_results)
        /\ placements = <<>>
        /\ response.status_code >= 400

\* A step of the pipeline goes to the same or a later stage, never away
\* from an ended call, and issues the calls of no stage twice.
StepsForward ==
    endpoint = "pipeline" =>
        /\ StageRank(pc') >= StageRank(pc)
        /\ pc \in { "done", "failed" } => pc' = pc
        /\ IssuedOnce(image_results, image_results')
        /\ IssuedOnce(selection_results, selection_results')
        /\ IssuedOnce(fetch_results, fetch_results')
        /\ IssuedOnce(compose_results, compose_results')
        /\ IssuedOnce(mask_results, mask_results')

\* C22: run_pipeline moves through its stages strictly forward: no call of
\* stage k+1 is issued before every call of stage k has completed, no stage
\* is entered again, and when a stage aborts the pipeline every call issued
\* in it has completed and no result of it is in the response.
C22_StagesStrictlyForward ==
    /\ [](endpoint = "pipeline" => (StagesInOrder /\ AbortDrained))
    /\ [][StepsForward]_vars

C22_Witness ==
    /\ endpoint = "pipeline" /\ pc = "failed"
    /\ response.detail = "Failed to select any products"
    /\ Len(image_results) = 2 /\ NFailed(image_results) = 1
    /\ Len(selection_results) = 1 /\ selection_results[1] = Exc
    /\ calls.fetch = 0 /\ calls.edit_image = 0

SceneIdsOf(scs) == [ i \in 1..Len(scs) |-> scs[i].id ]

TaskSceneIds(entries) == [ i \in 1..Len(entries) |-> entries[i][1].scene_id ]

CalledFor(ids, sid) == \E i \in 1..Len(ids) : ids[i] = sid

\* C23: in run_pipeline every selection call is made for a scene_id whose
\* image call succeeded, every composition call for a scene_id whose
\* selection call succeeded and every mask call for a scene_id whose
\* composition call succeeded; a scene_id that failed in a stage has no call
\* in any later stage.
C23_OnlySuccessesFlowForward ==
    endpoint = "pipeline" =>
        /\ \A i \in 1..Len(selection_results) : OkFor(image_results, images[i].scene_id)
        /\ \A i \in 1..Len(compose_results) :
              OkFor(selection_results, compose_tasks_list[i][1].scene_id)
        /\ \A i \in 1..Len(mask_results) :
              OkFor(compose_results, mask_tasks_list[i][1].scene_id)
        /\ \A sid \in AllSceneIds :
              /\ FailedFor(image_results, SceneIdsOf(scenes), sid) > 0 =>
                    /\ ~CalledFor(ReqSceneIds(images), sid)
                    /\ ~CalledFor(TaskSceneIds(compose_tasks_list), sid)
                    /\ ~CalledFor(TaskSceneIds(mask_tasks_list), sid)
              /\ FailedFor(selection_results, ReqSceneIds(images), sid) > 0 =>
                    /\ ~CalledFor(TaskSceneIds(compose_tasks_list), sid)
                    /\ ~CalledFor(TaskSceneIds(mask_tasks_list), sid)
              /\ FailedFor(compose_results, TaskSceneIds(compose_tasks_list), sid) > 0 =>
                    ~CalledFor(TaskSceneIds(mask_tasks_list), sid)

\* The product has an image_url and a fetch of it returned content.
FetchedImage(product) ==
    LET products_with_urls == SelectSeq(request.products, HasUrl)
    IN  /\ product.image_url # ""
        /\ \E j \in 1..Len(fetch_results) :
              /\ products_with_urls[j].image_url = product.image_url
              /\ fetch_results[j] # Exc /\ fetch_results[j] # Pending
              /\ fetch_results[j][1] # NoImage

\* C24: in run_pipeline a composition call uses the with-reference template
\* and passes a reference image exactly when the selected product has an
\* image_url whose fetch succeeded with content, and that image is the
\* reference; a failed fetch removes no scene_id from the composition and
\* does not fail the pipeline.
C24_ReferenceIffFetched ==
    (endpoint = "pipeline" /\ pc \in { "step4", "step5", "done", "failed" }) =>
        /\ \A i \in 1..Len(compose_tasks_list) :
              LET task == compose_tasks_list[i][1]
              IN  /\ task.product_image # NoImage <=> FetchedImage(task.product)
                  /\ task.product_image # NoImage =>
                        task.product_image.src = task.product.image_url
                  /\ compose_results[i] \notin { Exc, Pending } =>
                        (compose_results[i].image_data.gen = "compose_with_reference"
                            <=> FetchedImage(task.product))
        /\ \A k \in 1..Len(selections) :
              FirstProduct(request.products, selections[k].selected_product_id) # None =>
                  CalledFor(TaskSceneIds(compose_tasks_list), selections[k].scene_id)
        /\ (pc = "failed" /\ fetch_results # <<>>) =>
              /\ response.detail = "Failed to compose any images"
              /\ NSucceeded(compose_results) = 0

\* The error details that name a stage of the pipeline.
StageErrorDetails ==
    { "Failed to generate scenes", "Failed to generate any images",
      "Failed to select any products", "Failed to compose any images" }

\* C25: every error run_pipeline reports is an input-validation error or a
\* stage-level error that identifies the failed stage; a failure of the
\* scene-stage capability call, or of building its prompt, is reported with
\* the scene stage identified.
C25_ErrorsNameTheStage ==
    (endpoint = "pipeline" /\ pc = "failed") =>
        /\ response.status_code = 400 \/ response.detail \in StageErrorDetails
        /\ (response.status_code # 400 /\ image_results = <<>>) =>
              response.detail = "Failed to generate scenes"

\* ------------------------------------------------ parser properties, part 2

\* C26: in parse_scenes_xml a malformed scene block is dropped: the scenes
\* returned are those of the well-formed blocks of the text, in order, each
\* with the id, description and mood of its block; the result is empty only
\* when the text has no well-formed block.
C26_MalformedBlocksDropped ==
    (ppc = "returned" /\ pfun = "parse_scenes_xml") =>
        LET blocks == SelectSeq(pchunks, IsBlock)
        IN  /\ Len(presult) = Len(blocks)
            /\ \A i \in 1..Len(blocks) :
                  /\ i <= Len(presult)
                  /\ presult[i].id = ExpectedScene(blocks[i]).id
                  /\ presult[i].description = ExpectedScene(blocks[i]).description
                  /\ presult[i].mood = ExpectedScene(blocks[i]).mood
            /\ presult = <<>> <=> blocks = <<>>

\* ------------------------------------------------- handler properties, part 3

\* The items of the request of a batch operation.
BatchInput ==
    CASE endpoint = "generate_images" -> request.scenes
      [] endpoint = "select_products" -> request.images
      [] endpoint \in { "compose_batch", "generate_masks" } -> request.tasks

BatchEndpoints == { "generate_images", "select_products", "compose_batch", "generate_masks" }

\* C27: generate_images, select_products, compose_batch and generate_masks
\* signal a fatal condition to the caller when the input set is empty; none
\* returns an empty success response.
C27_EmptyInputIsFatal ==
    (endpoint \in BatchEndpoints /\ pc \in { "done", "failed" } /\ BatchInput = <<>>) =>
        /\ pc = "failed"
        /\ response.status_code >= 400

\* The placement p joins the records of the scene at position i of the
\* stage-1 output: its description and mood, the image generated for it, a
\* selection made on that image, the composition of that image and the mask
\* of that composition.
JoinsScene(p, i) ==
    /\ scenes[i].id = p.scene_id
    /\ scenes[i].description = p.scene_description
    /\ scenes[i].mood = p.mood
    /\ image_results[i] # Exc
    /\ image_results[i].image_data = p.scene_image
    /\ \E k \in 1..Len(selection_results) :
          /\ selection_results[k] # Exc
          /\ images[k] = image_results[i]
          /\ selection_results[k].selected_product_id = p.product.id
          /\ selection_results[k].placement_hint = p.placement_hint
          /\ selection_results[k].rationale = p.rationale
    /\ p.composed_image.src = image_results[i].image_data.src
    /\ p.mask.src = p.composed_image.src

\* C28: every PlacementResult returned by run_pipeline joins records of one
\* stage-1 scene only, and no two returned placements share a scene_id, for
\* every scene-stage response, also one with two blocks of the same id.
C28_PlacementJoinsOneScene ==
    (endpoint = "pipeline" /\ pc = "done") =>
        /\ \A n \in 1..Len(placements) :
              \E i \in 1..Len(scenes) : JoinsScene(placements[n], i)
        /\ \A n, m \in 1..Len(placements) :
              n # m => placements[n].scene_id # placements[m].scene_id

\* C29: for every request that passes validation, whatever its
\* continuation_ratio, the continuation_count and the exploration_count put
\* into the scene prompt are both between 0 and scene_count.
C29_CountsWithinSceneCount ==
    (endpoint = "pipeline" /\ pc = "step1") =>
        /\ scenes_prompt.continuation_count \in 0..request.scene_count
        /\ scenes_prompt.exploration_count \in 0..request.scene_count

\* ------------------------------------------------- store properties, part 2

\* C30: the audit entry and every media file of one save_generation call are
\* written into the partition of the same calendar day, the day on which the
\* time prefix of their id was taken, however the call is interleaved with
\* the clock, also when it starts before and ends after midnight.
C30_OneCallOnePartition ==
    \A a \in 1..Len(issued) :
        /\ issued[a].ret.log_path.date = issued[a].id_date
        /\ \A i \in 1..Len(issued[a].media) :
              LET entry == issued[a].ret.image_paths[i]
              IN  entry # NoneEntry => entry.path.date = issued[a].ret.log_path.date

====
